---- MODULE Spec2Model ----
(***************************************************************************)
(* A model of the PBFT seal engine of src/libpbftseal/PBFT.cpp.            *)
(*                                                                         *)
(* Every member function of class PBFT that changes the engine's state is  *)
(* an operator that maps the engine's state (a record whose fields are the *)
(* member variables, with their source names) to the state the function    *)
(* leaves; a function that calls another one applies the callee's operator.*)
(* The actions at the end apply a whole entry point (a message handler, a  *)
(* worker-loop step, a call of the host) to one engine.                    *)
(*                                                                         *)
(* Abstractions.                                                           *)
(*  - A block hash is a triple <<number, id, sealed>>: the block's number, *)
(*    an id that tells blocks of one number apart ("bad": the block fails  *)
(*    execution, "empty": it holds no transaction), and whether the header *)
(*    is the proposed one (0) or the one re-sealed after execution (1).    *)
(*    Block bytes are identified with the hash of the header they encode.  *)
(*  - A signature is <<signer, nonce>>: the key that made it and the nonce *)
(*    it was made with; it is understood to be over the block hash of the  *)
(*    message that carries it.  An honest signer always uses nonce 0, a    *)
(*    Byzantine one may produce several valid signatures of one hash.      *)
(*    sig2 is the index of the key that signed the remaining fields.       *)
(*  - Time is abstracted to the two values a timeout anchor can have:      *)
(*    0 (zeroed) and 1 (set from the clock); a timeout may expire at any   *)
(*    moment.  Timestamps of messages are only logged and are left out.    *)
(*  - A std::unordered_map is a function whose domain is the set of keys;  *)
(*    operator[] on an absent key adds the key with an empty value.        *)
(*  - The p2p host is alive (m_host.lock() succeeds), so broadcastMsg      *)
(*    returns true.  The queues of keys each peer is known to hold         *)
(*    (broadcastMark, broadcastFilter, clearMask) only spare the network   *)
(*    a packet the peer already has; they are no part of the engine's      *)
(*    state here and are modelled on their own (SpecMark, SpecCast) or     *)
(*    next to the engine (SpecRelay), and a broadcast is recorded with     *)
(*    the indices it is not sent to.                                       *)
(*  - PBFT.h is not part of the sources at hand.  What it declares is      *)
(*    taken from the specification: quorum() is N - f, a cleared message   *)
(*    holds Invalid256 in its numeric fields, kMaxChangeCycle is a cap     *)
(*    above every change cycle the model reaches.                          *)
(***************************************************************************)
EXTENDS Integers, Sequences, FiniteSets, TLC

VARIABLES
    pbft,   \* the engines modelled: node index -> the engine's state
    wire,   \* packets the modelled engines have handed to the network
    call    \* a call of a function that does not touch the engine's state:
            \* its arguments and, once it has returned, its result; or what
            \* the peers that are not modelled as engines have done so far

vars == <<pbft, wire, call>>

(***************************************************************************)
(* Bounds of the model.                                                    *)
(***************************************************************************)
MaxHeight == 2      \* block numbers reported by the chain are at most this
MaxView == 1        \* a timeout does not raise toView above this
MaxSigs == 3        \* a signature list of a block holds at most this many entries
MaxKeys == 3        \* distinct message keys marked at a peer, per packet kind
MaxRoster == 40     \* miners in a roster whose quorum is computed

(***************************************************************************)
(* Values.                                                                 *)
(***************************************************************************)
Invalid256 == 255   \* stand-in for the all-ones u256
NodeNum == 4        \* miners in the roster

U256(x) == x % (Invalid256 + 1)

NoHash == <<0, "", 0>>
NoSig == <<Invalid256, 0>>

Min(a, b) == IF a < b THEN a ELSE b

EmptyMap == [x \in {} |-> x]

\* PBFTMsg::clear / a default-constructed PrepareReq
EmptyReq ==
    [height |-> Invalid256, view |-> Invalid256, idx |-> Invalid256,
     block_hash |-> NoHash, sig |-> NoSig, sig2 |-> Invalid256, block |-> NoHash]

\* a default-constructed BlockHeader
NoBlockHeader == [number |-> Invalid256, hash |-> NoHash]

BlockHeader(h) == [number |-> h[1], hash |-> h]

\* the cap of m_change_cycle
kMaxChangeCycle == 20

maxFaulty_Half(node_num) == U256(node_num - 1) \div 2

\* m_f = (m_node_num - 1) / 3 of PBFT::resetConfig
maxFaulty(node_num) == U256(node_num - 1) \div 3

\* PBFT::quorum
quorum(s) == s.m_node_num - s.m_f

\* PBFTMsg::streamRLPFields and populate, as backupMsg and reloadMsg use them
streamRLPFields(m) == <<m.height, m.view, m.idx, m.block_hash, m.sig, m.sig2, m.block>>

populate(r) ==
    [height |-> r[1], view |-> r[2], idx |-> r[3], block_hash |-> r[4],
     sig |-> r[5], sig2 |-> r[6], block |-> r[7]]

(***************************************************************************)
(* The executor (BlockChain::checkBlockValid, Block::commitToSeal and      *)
(* Block::sealBlock), an external collaborator of the engine.              *)
(***************************************************************************)
\* checkBlockValid throws: the block is malformed or does not extend the tip
ExecThrows(s, block) ==
    \/ block = NoHash
    \/ block[2] = "bad"
    \/ s.m_highest_block.number = Invalid256
    \/ block[1] # s.m_highest_block.number + 1

\* outBlock.pending().size() == 0
ExecEmpty(block) == block[2] = "empty"

\* the header hash after commitToSeal and sealBlock
Reseal(h) == <<h[1], h[2], 1>>

(***************************************************************************)
(* The engine after construction, before initEnv.  The last fields are not *)
(* members of PBFT: roster is what NodeConnManager answers for this node   *)
(* and the peers its host has sessions with,                               *)
(* bc_head the head of the host's chain, sealOK what shouldSeal returned   *)
(* last, pending the block and view the host got from generateSeal and has *)
(* not yet passed to generateCommit, emitted the calls of                  *)
(* m_onSealGenerated so far, out the packets the call in progress has     *)
(* sent (empty between calls).                                             *)
(***************************************************************************)
\* the head of the chain when the model starts
Genesis == BlockHeader(<<1, "a", 1>>)

NoPending == <<NoHash, Invalid256>>

NewPBFT(roster, omit, db) ==
    [m_view |-> 0, m_to_view |-> 0, m_change_cycle |-> 0,
     m_leader_failed |-> FALSE,
     m_consensus_block_number |-> 0,
     m_highest_block |-> NoBlockHeader,
     m_last_consensus_time |-> 0, m_last_sign_time |-> 0,
     m_raw_prepare_cache |-> EmptyReq,
     m_prepare_cache |-> EmptyReq,
     m_committed_prepare_cache |-> EmptyReq,
     m_future_prepare_cache |-> <<Invalid256, EmptyReq>>,
     m_sign_cache |-> EmptyMap,
     m_commit_cache |-> EmptyMap,
     m_recv_view_change_req |-> EmptyMap,
     m_commitMap |-> {},
     m_cfg_err |-> FALSE,
     m_account_type |-> "none",
     m_node_idx |-> 0, m_node_num |-> 0, m_f |-> 0,
     m_omit_empty_block |-> omit,
     m_backup_db |-> db,
     roster |-> roster,
     bc_head |-> Genesis,
     sealOK |-> FALSE,
     pending |-> NoPending,
     emitted |-> << >>,
     out |-> {}]

(***************************************************************************)
(* Maps.                                                                   *)
(***************************************************************************)
MapPut(f, k, v) == [x \in DOMAIN f \cup {k} |-> IF x = k THEN v ELSE f[x]]

MapDel(f, K) == [x \in DOMAIN f \ K |-> f[x]]

\* c.find(k)->second, or the empty value c[k] creates
Get(c, k) == IF k \in DOMAIN c THEN c[k] ELSE EmptyMap

\* c[k] on a map of maps: the key is created when absent
Touch(c, k) == IF k \in DOMAIN c THEN c ELSE MapPut(c, k, EmptyMap)

\* c[k1][k2] = v
Put2(c, k1, k2, v) == MapPut(c, k1, MapPut(Get(c, k1), k2, v))

Size(m) == Cardinality(DOMAIN m)

(***************************************************************************)
(* Signatures and the network.                                             *)
(***************************************************************************)
\* PBFT::signHash: the engine's own key, the deterministic nonce
signHash(s) == <<s.m_node_idx, 0>>

\* PBFT::checkSign(PBFTMsg): the roster knows idx, and sig and sig2 are idx's
checkSign(req) ==
    /\ req.idx \in 0..(NodeNum - 1)
    /\ req.sig[1] = req.idx
    /\ req.sig2 = req.idx

\* PBFT::broadcastMsg: the packet goes to the miner peers outside filter
broadcastMsg(s, id, msg, filter) ==
    [s EXCEPT !.out = @ \cup {[id |-> id, msg |-> msg, to |-> "miners", peer |-> Invalid256,
                               filter |-> filter]}]

\* pbftPeer->sealAndSend: one packet to one peer
sealAndSend(s, id, msg, peer) ==
    [s EXCEPT !.out = @ \cup {[id |-> id, msg |-> msg, to |-> "peer", peer |-> peer,
                               filter |-> {}]}]

(***************************************************************************)
(* Configuration.                                                          *)
(***************************************************************************)
\* PBFT::resetConfig.  s.roster is what NodeConnManager answers for this
\* node's key: its account type ("none": the key is unknown) and its index.
resetConfig(s) ==
    IF s.roster.account = "none"
    THEN [s EXCEPT !.m_cfg_err = TRUE]
    ELSE LET s1 == [s EXCEPT !.m_account_type = s.roster.account]
         IN IF NodeNum # s1.m_node_num \/ s.roster.idx # s1.m_node_idx
            THEN [s1 EXCEPT !.m_node_num = NodeNum,
                            !.m_node_idx = s.roster.idx,
                            !.m_f = maxFaulty(NodeNum),
                            !.m_prepare_cache = EmptyReq,
                            !.m_sign_cache = EmptyMap,
                            !.m_recv_view_change_req = EmptyMap,
                            !.m_commitMap = {},
                            !.m_cfg_err = FALSE]
            ELSE [s1 EXCEPT !.m_cfg_err = FALSE]

\* PBFT::backupMsg
backupMsg(s, key, msg) ==
    [s EXCEPT !.m_backup_db = MapPut(@, key, streamRLPFields(msg))]

\* PBFT::reloadMsg into m_committed_prepare_cache
reloadMsg(s, key) ==
    IF key \notin DOMAIN s.m_backup_db
    THEN s
    ELSE [s EXCEPT !.m_committed_prepare_cache = populate(s.m_backup_db[key])]

\* PBFT::initBackupDB
initBackupDB(s) == reloadMsg(s, "committed")

\* PBFT::initEnv on a freshly constructed engine
initEnv(s) ==
    LET s1 == resetConfig(s)
        s2 == [s1 EXCEPT !.m_consensus_block_number = 0,
                         !.m_last_consensus_time = 1,
                         !.m_change_cycle = 0,
                         !.m_to_view = 0,
                         !.m_leader_failed = FALSE,
                         !.m_last_sign_time = 0,
                         !.m_future_prepare_cache = <<Invalid256, EmptyReq>>]
    IN initBackupDB(s2)

\* getLeader that does not look at m_leader_failed
getLeader_IgnoreFailed(s) ==
    IF s.m_cfg_err \/ s.m_highest_block.number = Invalid256
    THEN <<FALSE, Invalid256>>
    ELSE <<TRUE, U256(s.m_view + s.m_highest_block.number) % s.m_node_num>>

\* PBFT::getLeader
getLeader(s) ==
    IF s.m_cfg_err \/ s.m_leader_failed \/ s.m_highest_block.number = Invalid256
    THEN <<FALSE, Invalid256>>
    ELSE <<TRUE, U256(s.m_view + s.m_highest_block.number) % s.m_node_num>>

(***************************************************************************)
(* The caches.                                                             *)
(***************************************************************************)
\* isExistPrepare finding no proposal a duplicate
isExistPrepare_Never(s, req) == FALSE

\* PBFT::isExistPrepare
isExistPrepare(s, req) == s.m_raw_prepare_cache.block_hash = req.block_hash

\* PBFT::isExistSign
isExistSign(s, req) == req.sig \in DOMAIN Get(s.m_sign_cache, req.block_hash)

\* PBFT::isExistCommit
isExistCommit(s, req) == req.sig \in DOMAIN Get(s.m_commit_cache, req.block_hash)

\* PBFT::isExistViewChange
isExistViewChange(s, req) == req.idx \in DOMAIN Get(s.m_recv_view_change_req, req.view)

\* PBFT::addRawPrepare
addRawPrepare_KeepPrepare(s, req) ==
    [s EXCEPT !.m_raw_prepare_cache = req]

addRawPrepare(s, req) ==
    [s EXCEPT !.m_raw_prepare_cache = req, !.m_prepare_cache = EmptyReq]

\* the loops of addPrepareReq: drop the votes of another view from c[hash]
DropOtherViews(c, hash, view) ==
    IF hash \notin DOMAIN c
    THEN c
    ELSE MapPut(c, hash,
                MapDel(c[hash], {k \in DOMAIN c[hash] : c[hash][k].view # view}))

\* PBFT::addPrepareReq
addPrepareReq(s, req) ==
    [s EXCEPT !.m_prepare_cache = req,
              !.m_sign_cache = DropOtherViews(@, req.block_hash, req.view),
              !.m_commit_cache = DropOtherViews(@, req.block_hash, req.view)]

\* PBFT::addSignReq
addSignReq(s, req) ==
    [s EXCEPT !.m_sign_cache = Put2(@, req.block_hash, req.sig, req)]

\* PBFT::addCommitReq
addCommitReq(s, req) ==
    [s EXCEPT !.m_commit_cache = Put2(@, req.block_hash, req.sig, req)]

\* PBFT::delCache
delCache(s, hash) ==
    [s EXCEPT !.m_sign_cache = MapDel(@, {hash}),
              !.m_commit_cache = MapDel(@, {hash}),
              !.m_prepare_cache =
                  IF hash = s.m_prepare_cache.block_hash THEN EmptyReq ELSE @,
              !.m_commitMap = @ \ {hash}]

\* the test of delViewChange and of checkTimeout's purge: the view change
\* is for a block below the tip, or for another block of the tip's number
StaleViewChange(s, req) ==
    \/ req.height < s.m_highest_block.number
    \/ /\ req.height = s.m_highest_block.number
       /\ req.block_hash # s.m_highest_block.hash

\* PBFT::delViewChange
delViewChange(s) ==
    LET c == s.m_recv_view_change_req
        kept(v) == MapDel(c[v], {i \in DOMAIN c[v] : StaleViewChange(s, c[v][i])})
        views == {v \in DOMAIN c : Size(kept(v)) # 0}
    IN [s EXCEPT !.m_recv_view_change_req = [v \in views |-> kept(v)]]

(***************************************************************************)
(* Votes and the two quorum checks.                                        *)
(***************************************************************************)
\* the SignReq, CommitReq or ViewChangeReq this engine signs
OwnReq(s, height, view, hash) ==
    [height |-> height, view |-> view, idx |-> s.m_node_idx, block_hash |-> hash,
     sig |-> signHash(s), sig2 |-> s.m_node_idx, block |-> NoHash]

\* the PrepareReq this engine signs
OwnPrepare(s, height, view, idx, hash, block) ==
    [height |-> height, view |-> view, idx |-> idx, block_hash |-> hash,
     sig |-> signHash(s), sig2 |-> s.m_node_idx, block |-> block]

\* PBFT::broadcastSignReq
broadcastSignReq(s, req) ==
    LET sign_req == OwnReq(s, req.height, req.view, req.block_hash)
    IN addSignReq(broadcastMsg(s, "SignReq", sign_req, {}), sign_req)

\* PBFT::broadcastCommitReq
broadcastCommitReq(s, req) ==
    LET commit_req == OwnReq(s, req.height, req.view, req.block_hash)
    IN addCommitReq(broadcastMsg(s, "CommitReq", commit_req, {}), commit_req)

\* PBFT::broadcastPrepareReq
broadcastPrepareReq(s, hash) ==
    LET req == OwnPrepare(s, hash[1], s.m_view, s.m_node_idx, hash, hash)
    IN addRawPrepare(broadcastMsg(s, "PrepareReq", req, {}), req)

\* PBFT::broadcastViewChangeReq
broadcastViewChangeReq(s) ==
    IF s.m_account_type # "miner"
    THEN s
    ELSE broadcastMsg(s, "ViewChangeReq",
                      OwnReq(s, s.m_highest_block.number, s.m_to_view,
                             s.m_highest_block.hash), {})

\* the block checkAndSave hands to m_onSealGenerated, and its second argument;
\* have_sign and signers are not passed: they record the sign votes counted
SealedBlock(s) ==
    LET p == s.m_prepare_cache
        commits == Get(s.m_commit_cache, p.block_hash)
        signs == Get(s.m_sign_cache, p.block_hash)
    IN [hash |-> p.block_hash, height |-> p.height, view |-> p.view,
        block |-> p.block,
        sig_list |-> {<<commits[k].idx, k>> : k \in DOMAIN commits},
        isPrimary |-> (p.idx = s.m_node_idx),
        have_sign |-> Size(signs),
        signers |-> {signs[k].idx : k \in DOMAIN signs}]

\* checkAndSave emitting although the chain has reached the proposal's height
checkAndSave_AnyHeight(s) ==
    LET hash == s.m_prepare_cache.block_hash
        s1 == [s EXCEPT !.m_sign_cache = Touch(@, hash),
                        !.m_commit_cache = Touch(@, hash)]
        have_sign == Size(s1.m_sign_cache[hash])
        have_commit == Size(s1.m_commit_cache[hash])
        committed == hash \in s.m_commitMap
    IN IF have_sign >= quorum(s) /\ have_commit >= quorum(s) /\ ~committed
       THEN LET s2 == [s1 EXCEPT !.m_commitMap = @ \cup {hash}]
            IN IF s2.m_prepare_cache.view # s2.m_view
               THEN s2
               ELSE [s2 EXCEPT !.emitted = Append(@, SealedBlock(s2))]
       ELSE s1

\* checkAndSave without the trigger-once flag
checkAndSave_Retrigger(s) ==
    LET hash == s.m_prepare_cache.block_hash
        s1 == [s EXCEPT !.m_sign_cache = Touch(@, hash),
                        !.m_commit_cache = Touch(@, hash)]
        have_sign == Size(s1.m_sign_cache[hash])
        have_commit == Size(s1.m_commit_cache[hash])
    IN IF have_sign >= quorum(s) /\ have_commit >= quorum(s)
       THEN LET s2 == [s1 EXCEPT !.m_commitMap = @ \cup {hash}]
            IN IF s2.m_prepare_cache.view # s2.m_view
               THEN s2
               ELSE IF s2.m_prepare_cache.height > s2.m_highest_block.number
                    THEN [s2 EXCEPT !.emitted = Append(@, SealedBlock(s2))]
                    ELSE s2
       ELSE s1

\* checkAndSave counting the sign votes only
checkAndSave_SignsOnly(s) ==
    LET hash == s.m_prepare_cache.block_hash
        s1 == [s EXCEPT !.m_sign_cache = Touch(@, hash),
                        !.m_commit_cache = Touch(@, hash)]
        have_sign == Size(s1.m_sign_cache[hash])
        committed == hash \in s.m_commitMap
    IN IF have_sign >= quorum(s) /\ ~committed
       THEN LET s2 == [s1 EXCEPT !.m_commitMap = @ \cup {hash}]
            IN IF s2.m_prepare_cache.view # s2.m_view
               THEN s2
               ELSE IF s2.m_prepare_cache.height > s2.m_highest_block.number
                    THEN [s2 EXCEPT !.emitted = Append(@, SealedBlock(s2))]
                    ELSE s2
       ELSE s1

\* PBFT::checkAndSave
checkAndSave(s) ==
    LET hash == s.m_prepare_cache.block_hash
        s1 == [s EXCEPT !.m_sign_cache = Touch(@, hash),
                        !.m_commit_cache = Touch(@, hash)]
        have_sign == Size(s1.m_sign_cache[hash])
        have_commit == Size(s1.m_commit_cache[hash])
        committed == hash \in s.m_commitMap
    IN IF have_sign >= quorum(s) /\ have_commit >= quorum(s) /\ ~committed
       THEN LET s2 == [s1 EXCEPT !.m_commitMap = @ \cup {hash}]
            IN IF s2.m_prepare_cache.view # s2.m_view
               THEN s2
               ELSE IF s2.m_prepare_cache.height > s2.m_highest_block.number
                    THEN [s2 EXCEPT !.emitted = Append(@, SealedBlock(s2))]
                    ELSE s2
       ELSE s1

\* checkAndCommit committing whatever the view of the proposal
checkAndCommit_AnyView(s) ==
    LET hash == s.m_prepare_cache.block_hash
        s1 == [s EXCEPT !.m_sign_cache = Touch(@, hash)]
        have_sign == Size(s1.m_sign_cache[hash])
    IN IF have_sign = quorum(s)
       THEN LET s2 == [s1 EXCEPT !.m_committed_prepare_cache =
                                      s1.m_raw_prepare_cache]
                s3 == backupMsg(s2, "committed", s2.m_committed_prepare_cache)
                s4 == IF s3.m_account_type = "miner"
                      THEN broadcastCommitReq(s3, s3.m_prepare_cache)
                      ELSE s3
                s5 == [s4 EXCEPT !.m_last_sign_time = 1]
            IN checkAndSave(s5)
       ELSE s1

\* PBFT::checkAndCommit
checkAndCommit(s) ==
    LET hash == s.m_prepare_cache.block_hash
        s1 == [s EXCEPT !.m_sign_cache = Touch(@, hash)]
        have_sign == Size(s1.m_sign_cache[hash])
    IN IF have_sign = quorum(s)
       THEN IF s1.m_prepare_cache.view # s1.m_view
            THEN s1
            ELSE LET s2 == [s1 EXCEPT !.m_committed_prepare_cache =
                                           s1.m_raw_prepare_cache]
                     s3 == backupMsg(s2, "committed", s2.m_committed_prepare_cache)
                     s4 == IF s3.m_account_type = "miner"
                           THEN broadcastCommitReq(s3, s3.m_prepare_cache)
                           ELSE s3
                     s5 == [s4 EXCEPT !.m_last_sign_time = 1]
                 IN checkAndSave(s5)
       ELSE s1

\* checkAndChangeView without the reset of m_leader_failed
checkAndChangeView_KeepFailed(s) ==
    LET s1 == [s EXCEPT !.m_recv_view_change_req = Touch(@, s.m_to_view)]
        count == Size(s1.m_recv_view_change_req[s.m_to_view])
    IN IF count >= U256(quorum(s) - 1)
       THEN [s1 EXCEPT !.m_view = s.m_to_view,
                       !.m_raw_prepare_cache = EmptyReq,
                       !.m_prepare_cache = EmptyReq,
                       !.m_sign_cache = EmptyMap,
                       !.m_commit_cache = EmptyMap,
                       !.m_commitMap = {},
                       !.m_recv_view_change_req =
                           MapDel(@, {v \in DOMAIN @ : v <= s.m_to_view})]
       ELSE s1

\* checkAndChangeView keeping the votes of the view it leaves
checkAndChangeView_KeepVotes(s) ==
    LET s1 == [s EXCEPT !.m_recv_view_change_req = Touch(@, s.m_to_view)]
        count == Size(s1.m_recv_view_change_req[s.m_to_view])
    IN IF count >= U256(quorum(s) - 1)
       THEN [s1 EXCEPT !.m_leader_failed = FALSE,
                       !.m_view = s.m_to_view,
                       !.m_raw_prepare_cache = EmptyReq,
                       !.m_prepare_cache = EmptyReq,
                       !.m_commitMap = {},
                       !.m_recv_view_change_req =
                           MapDel(@, {v \in DOMAIN @ : v <= s.m_to_view})]
       ELSE s1

\* checkAndChangeView needing one view change less
checkAndChangeView_OneLess(s) ==
    LET s1 == [s EXCEPT !.m_recv_view_change_req = Touch(@, s.m_to_view)]
        count == Size(s1.m_recv_view_change_req[s.m_to_view])
    IN IF count + 1 >= U256(quorum(s) - 1)
       THEN [s1 EXCEPT !.m_leader_failed = FALSE,
                       !.m_view = s.m_to_view,
                       !.m_raw_prepare_cache = EmptyReq,
                       !.m_prepare_cache = EmptyReq,
                       !.m_sign_cache = EmptyMap,
                       !.m_commit_cache = EmptyMap,
                       !.m_commitMap = {},
                       !.m_recv_view_change_req =
                           MapDel(@, {v \in DOMAIN @ : v <= s.m_to_view})]
       ELSE s1

\* PBFT::checkAndChangeView
checkAndChangeView(s) ==
    LET s1 == [s EXCEPT !.m_recv_view_change_req = Touch(@, s.m_to_view)]
        count == Size(s1.m_recv_view_change_req[s.m_to_view])
    IN IF count >= U256(quorum(s) - 1)
       THEN [s1 EXCEPT !.m_leader_failed = FALSE,
                       !.m_view = s.m_to_view,
                       !.m_raw_prepare_cache = EmptyReq,
                       !.m_prepare_cache = EmptyReq,
                       !.m_sign_cache = EmptyMap,
                       !.m_commit_cache = EmptyMap,
                       !.m_commitMap = {},
                       !.m_recv_view_change_req =
                           MapDel(@, {v \in DOMAIN @ : v <= s.m_to_view})]
       ELSE s1

(***************************************************************************)
(* The message handlers.                                                   *)
(***************************************************************************)
\* PBFT::recvFutureBlock
recvFutureBlock(s, from, req) ==
    IF s.m_future_prepare_cache[2].block_hash # req.block_hash
    THEN [s EXCEPT !.m_future_prepare_cache = <<from, req>>]
    ELSE s

\* changeViewForEmptyBlockWithoutLock marking the leader failed, as
\* changeViewForEmptyBlockWithLock does
changeViewForEmptyBlockWithoutLock_Failed(s) ==
    [s EXCEPT !.m_last_consensus_time = 0,
              !.m_last_sign_time = 0,
              !.m_change_cycle = 0,
              !.m_leader_failed = TRUE]

\* PBFT::changeViewForEmptyBlockWithoutLock
changeViewForEmptyBlockWithoutLock(s) ==
    [s EXCEPT !.m_last_consensus_time = 0,
              !.m_last_sign_time = 0,
              !.m_change_cycle = 0]

\* PBFT::handlePrepareMsg
handlePrepareMsg(s, from, req, self) ==
    IF isExistPrepare(s, req) THEN s
    ELSE IF ~self /\ req.idx = s.m_node_idx THEN s
    ELSE IF req.height < s.m_consensus_block_number \/ req.view < s.m_view THEN s
    ELSE IF req.height > s.m_consensus_block_number \/ req.view > s.m_view
         THEN recvFutureBlock(s, from, req)
    ELSE IF ~getLeader(s)[1] \/ req.idx # getLeader(s)[2] THEN s
    ELSE IF /\ req.height = s.m_committed_prepare_cache.height
            /\ req.block_hash # s.m_committed_prepare_cache.block_hash THEN s
    ELSE IF ~checkSign(req) THEN s
    ELSE LET s1 == addRawPrepare(s, req)
         IN IF ExecThrows(s1, req.block) THEN s1
            ELSE IF req.block # req.block_hash THEN s1
            ELSE IF ExecEmpty(req.block) /\ s1.m_omit_empty_block
                 THEN changeViewForEmptyBlockWithoutLock(s1)
            ELSE LET r == OwnPrepare(s1, req.height, req.view, req.idx,
                                     Reseal(req.block), Reseal(req.block))
                     s2 == addPrepareReq(s1, r)
                     s3 == IF s2.m_account_type = "miner"
                           THEN broadcastSignReq(s2, r)
                           ELSE s2
                 IN checkAndCommit(s3)

\* handleSignMsg caching every validly signed vote for another block
handleSignMsg_CacheAll(s, from, req) ==
    IF isExistSign(s, req) THEN s
    ELSE IF req.idx = s.m_node_idx THEN s
    ELSE IF s.m_prepare_cache.block_hash # req.block_hash
         THEN IF checkSign(req) THEN addSignReq(s, req) ELSE s
    ELSE IF s.m_prepare_cache.view # req.view THEN s
    ELSE IF ~checkSign(req) THEN s
    ELSE checkAndCommit(addSignReq(s, req))

\* PBFT::handleSignMsg
handleSignMsg(s, from, req) ==
    IF isExistSign(s, req) THEN s
    ELSE IF req.idx = s.m_node_idx THEN s
    ELSE IF s.m_prepare_cache.block_hash # req.block_hash
         THEN LET future_msg == \/ req.height >= s.m_consensus_block_number
                                \/ req.view > s.m_view
              IN IF future_msg /\ checkSign(req) THEN addSignReq(s, req) ELSE s
    ELSE IF s.m_prepare_cache.view # req.view THEN s
    ELSE IF ~checkSign(req) THEN s
    ELSE checkAndCommit(addSignReq(s, req))

\* PBFT::handleCommitMsg
handleCommitMsg(s, from, req) ==
    IF isExistCommit(s, req) THEN s
    ELSE IF req.idx = s.m_node_idx THEN s
    ELSE IF s.m_prepare_cache.block_hash # req.block_hash
         THEN LET future_msg == \/ req.height >= s.m_consensus_block_number
                                \/ req.view > s.m_view
              IN IF future_msg /\ checkSign(req) THEN addCommitReq(s, req) ELSE s
    ELSE IF s.m_prepare_cache.view # req.view THEN s
    ELSE IF ~checkSign(req) THEN s
    ELSE checkAndSave(addCommitReq(s, req))

\* one round of the outer loop of the fast view change scan (lines 1080-1096):
\* the signers of view v that are at the tip or above and have no later view
\* recorded take view v; min_view and min_height follow the entries taken
ScanView(s, acc, v) ==
    LET reqs == s.m_recv_view_change_req[v]
        taken == {i \in DOMAIN reqs :
                     /\ reqs[i].height >= s.m_highest_block.number
                     /\ (i \notin DOMAIN acc.idx_view_map \/ v > acc.idx_view_map[i])}
        heights == {reqs[i].height : i \in taken}
    IN IF v > s.m_to_view /\ taken # {}
       THEN [idx_view_map |-> [i \in DOMAIN acc.idx_view_map \cup taken |->
                                  IF i \in taken THEN v ELSE acc.idx_view_map[i]],
             min_view |-> Min(acc.min_view, v),
             min_height |-> Min(acc.min_height,
                                CHOOSE h \in heights : \A g \in heights : h <= g)]
       ELSE acc

\* the scan over the views of m_recv_view_change_req in the order ord
RECURSIVE FastScan(_, _, _)
FastScan(s, ord, acc) ==
    IF ord = << >>
    THEN acc
    ELSE FastScan(s, Tail(ord),
                  IF Head(ord) \in DOMAIN s.m_recv_view_change_req
                  THEN ScanView(s, acc, Head(ord))
                  ELSE acc)

\* the fast view change of handleViewChangeMsg (lines 1066-1114)
fastViewChange(s, ord) ==
    LET r == FastScan(s, ord, [idx_view_map |-> EmptyMap,
                               min_view |-> Invalid256, min_height |-> Invalid256])
        count == Size(r.idx_view_map)
        flag == /\ r.min_height = s.m_consensus_block_number
                /\ r.min_height = s.m_committed_prepare_cache.height
    IN IF count > s.m_f /\ ~flag
       THEN [s EXCEPT !.m_last_consensus_time = 0,
                      !.m_last_sign_time = 0,
                      !.m_to_view = U256(r.min_view - 1),
                      !.m_change_cycle = Min(U256(r.min_view - 1), kMaxChangeCycle)]
       ELSE s

\* handleViewChangeMsg without the test of the view
handleViewChangeMsg_AnyView(s, from, req, known, ord) ==
    IF isExistViewChange(s, req) THEN s
    ELSE IF req.idx = s.m_node_idx THEN s
    ELSE IF req.height < s.m_highest_block.number THEN s
    ELSE IF /\ req.height = s.m_highest_block.number
            /\ req.block_hash # s.m_highest_block.hash
            /\ ~known THEN s
    ELSE IF ~checkSign(req) THEN s
    ELSE LET s2 == [s EXCEPT !.m_recv_view_change_req =
                                 Put2(@, req.view, req.idx, req)]
         IN IF req.view = s2.m_to_view
            THEN checkAndChangeView(s2)
            ELSE fastViewChange(s2, ord)

\* PBFT::handleViewChangeMsg.  known: the chain holds the block req names;
\* ord: the order in which the unordered map yields its views
handleViewChangeMsg(s, from, req, known, ord) ==
    IF isExistViewChange(s, req) THEN s
    ELSE IF req.idx = s.m_node_idx THEN s
    ELSE LET s1 == IF /\ U256(req.view + 1) < s.m_to_view
                      /\ req.idx = from
                      /\ s.m_account_type = "miner"
                   THEN sealAndSend(s, "ViewChangeReq",
                                    OwnReq(s, s.m_highest_block.number, s.m_to_view,
                                           s.m_highest_block.hash), from)
                   ELSE s
         IN IF req.height < s1.m_highest_block.number \/ req.view <= s1.m_view THEN s1
            ELSE IF /\ req.height = s1.m_highest_block.number
                    /\ req.block_hash # s1.m_highest_block.hash
                    /\ ~known THEN s1
            ELSE IF ~checkSign(req) THEN s1
            ELSE LET s2 == [s1 EXCEPT !.m_recv_view_change_req =
                                          Put2(@, req.view, req.idx, req)]
                 IN IF req.view = s2.m_to_view
                    THEN checkAndChangeView(s2)
                    ELSE fastViewChange(s2, ord)

(***************************************************************************)
(* The worker loop's steps.                                                *)
(***************************************************************************)
\* checkTimeout raising m_change_cycle without the cap
checkTimeout_NoCap(s) ==
    LET to_view == U256(s.m_to_view + 1)
        c == Touch(s.m_recv_view_change_req, to_view)
        s1 == [s EXCEPT !.m_leader_failed = TRUE,
                        !.m_to_view = to_view,
                        !.m_change_cycle = @ + 1,
                        !.m_last_consensus_time = 1,
                        !.m_recv_view_change_req =
                            MapPut(c, to_view,
                                   MapDel(c[to_view],
                                          {i \in DOMAIN c[to_view] :
                                              StaleViewChange(s, c[to_view][i])}))]
    IN checkAndChangeView(broadcastViewChangeReq(s1))

\* PBFT::checkTimeout when the interval has expired
checkTimeout(s) ==
    LET to_view == U256(s.m_to_view + 1)
        c == Touch(s.m_recv_view_change_req, to_view)
        s1 == [s EXCEPT !.m_leader_failed = TRUE,
                        !.m_to_view = to_view,
                        !.m_change_cycle = Min(@ + 1, kMaxChangeCycle),
                        !.m_last_consensus_time = 1,
                        !.m_recv_view_change_req =
                            MapPut(c, to_view,
                                   MapDel(c[to_view],
                                          {i \in DOMAIN c[to_view] :
                                              StaleViewChange(s, c[to_view][i])}))]
    IN checkAndChangeView(broadcastViewChangeReq(s1))

\* PBFT::handleFutureBlock
handleFutureBlock(s) ==
    IF /\ s.m_future_prepare_cache[2].height = s.m_consensus_block_number
       /\ s.m_future_prepare_cache[2].view = s.m_view
    THEN [handlePrepareMsg(s, s.m_future_prepare_cache[1],
                           s.m_future_prepare_cache[2], FALSE)
             EXCEPT !.m_future_prepare_cache = <<Invalid256, EmptyReq>>]
    ELSE s

\* the pruning loops of collectGarbage: the votes below the tip go, and so do
\* the buckets left empty
PruneBelowTip(s, c) ==
    LET kept(h) == MapDel(c[h], {k \in DOMAIN c[h] :
                                    c[h][k].height < s.m_highest_block.number})
    IN [h \in {g \in DOMAIN c : Size(kept(g)) # 0} |-> kept(h)]

\* PBFT::collectGarbage when kCollectInterval has passed
collectGarbage(s) ==
    IF s.m_highest_block = NoBlockHeader
    THEN s
    ELSE LET signs == PruneBelowTip(s, s.m_sign_cache)
         IN [s EXCEPT !.m_commitMap = @ \ (DOMAIN s.m_sign_cache \ DOMAIN signs),
                      !.m_sign_cache = signs,
                      !.m_commit_cache = PruneBelowTip(s, @)]

(***************************************************************************)
(* The calls of the host.                                                  *)
(***************************************************************************)
\* reportBlock that takes the reported number for the next height
reportBlock_OffByOne(s, b) ==
    LET s1 == [s EXCEPT !.m_highest_block = b]
        s2 == IF b.number >= s.m_consensus_block_number
              THEN delViewChange([s1 EXCEPT !.m_view = 0,
                                            !.m_to_view = 0,
                                            !.m_change_cycle = 0,
                                            !.m_leader_failed = FALSE,
                                            !.m_last_consensus_time = 1,
                                            !.m_consensus_block_number = b.number])
              ELSE s1
    IN delCache(resetConfig(s2), b.hash)

\* reportBlock that starts the round over for every reported block
reportBlock_AlwaysReset(s, b) ==
    LET s1 == [s EXCEPT !.m_highest_block = b]
        s2 == delViewChange([s1 EXCEPT !.m_view = 0,
                                       !.m_to_view = 0,
                                       !.m_change_cycle = 0,
                                       !.m_leader_failed = FALSE,
                                       !.m_last_consensus_time = 1,
                                       !.m_consensus_block_number =
                                           IF b.number >= @ THEN U256(b.number + 1)
                                                            ELSE @])
    IN delCache(resetConfig(s2), b.hash)

reportBlock_ResetToViewOnly(s, b) ==
    LET s1 == [s EXCEPT !.m_highest_block = b]
        s2 == IF b.number >= s.m_consensus_block_number
              THEN delViewChange([s1 EXCEPT !.m_to_view = 0,
                                            !.m_change_cycle = 0,
                                            !.m_leader_failed = FALSE,
                                            !.m_last_consensus_time = 1,
                                            !.m_consensus_block_number =
                                                U256(b.number + 1)])
              ELSE s1
    IN delCache(resetConfig(s2), b.hash)

reportBlock_Advance(s, b) ==
    LET s1 == [s EXCEPT !.m_highest_block = b]
        s2 == delViewChange([s1 EXCEPT !.m_view = 0,
                                       !.m_to_view = 0,
                                       !.m_change_cycle = 0,
                                       !.m_leader_failed = FALSE,
                                       !.m_last_consensus_time = 1,
                                       !.m_consensus_block_number =
                                           U256(s.m_consensus_block_number + 1)])
    IN delCache(resetConfig(s2), b.hash)

\* PBFT::reportBlock
reportBlock(s, b) ==
    LET s1 == [s EXCEPT !.m_highest_block = b]
        s2 == IF b.number >= s.m_consensus_block_number
              THEN delViewChange([s1 EXCEPT !.m_view = 0,
                                            !.m_to_view = 0,
                                            !.m_change_cycle = 0,
                                            !.m_leader_failed = FALSE,
                                            !.m_last_consensus_time = 1,
                                            !.m_consensus_block_number =
                                                U256(b.number + 1)])
              ELSE s1
    IN delCache(resetConfig(s2), b.hash)

\* PBFT::generateSeal; hash is the header hash of the block the host proposes
generateSeal(s, hash) == broadcastPrepareReq(s, hash)

\* PBFT::generateCommit; hash is the header hash of the block as executed
generateCommit(s, hash, view) ==
    IF view # s.m_view
    THEN s
    ELSE LET req == OwnPrepare(s, hash[1], view, s.m_node_idx, hash, hash)
         IN checkAndCommit(broadcastSignReq(addPrepareReq(s, req), req))

\* PBFT::reHandlePrepareReq
reHandlePrepareReq(s, creq) ==
    LET req == OwnPrepare(s, creq.height, s.m_view, s.m_node_idx,
                          creq.block_hash, creq.block)
    IN handlePrepareMsg(broadcastMsg(s, "PrepareReq", req, {}),
                        s.m_node_idx, req, TRUE)

\* the value PBFT::shouldSeal returns
shouldSealRet(s) ==
    IF s.m_cfg_err \/ s.m_account_type # "miner" THEN FALSE
    ELSE IF ~getLeader(s)[1] THEN FALSE
    ELSE IF getLeader(s)[2] # s.m_node_idx THEN FALSE
    ELSE IF s.m_consensus_block_number = s.m_committed_prepare_cache.height THEN FALSE
    ELSE TRUE

\* shouldSeal replaying the committed proposal whatever rawPrepare holds
shouldSeal_AlwaysReplay(s, connected) ==
    IF s.m_cfg_err \/ s.m_account_type # "miner" THEN s
    ELSE IF ~getLeader(s)[1] THEN s
    ELSE IF getLeader(s)[2] # s.m_node_idx
         THEN IF ~connected
              THEN [s EXCEPT !.m_last_consensus_time = 0, !.m_last_sign_time = 0]
              ELSE s
    ELSE IF s.m_consensus_block_number = s.m_committed_prepare_cache.height
         THEN reHandlePrepareReq(s, s.m_committed_prepare_cache)
    ELSE s

\* the state PBFT::shouldSeal leaves; connected: the host is connected to
\* the leader
shouldSeal(s, connected) ==
    IF s.m_cfg_err \/ s.m_account_type # "miner" THEN s
    ELSE IF ~getLeader(s)[1] THEN s
    ELSE IF getLeader(s)[2] # s.m_node_idx
         THEN IF ~connected
              THEN [s EXCEPT !.m_last_consensus_time = 0, !.m_last_sign_time = 0]
              ELSE s
    ELSE IF s.m_consensus_block_number = s.m_committed_prepare_cache.height
         THEN IF s.m_consensus_block_number # s.m_raw_prepare_cache.height
              THEN reHandlePrepareReq(s, s.m_committed_prepare_cache)
              ELSE s
    ELSE s

(***************************************************************************)
(* Inbound packets.                                                        *)
(***************************************************************************)
\* the dispatch of PBFT::handleMsg
dispatch(s, pkt, known, ord) ==
    CASE pkt.id = "PrepareReq" -> handlePrepareMsg(s, pkt.from, pkt.msg, FALSE)
      [] pkt.id = "SignReq" -> handleSignMsg(s, pkt.from, pkt.msg)
      [] pkt.id = "CommitReq" -> handleCommitMsg(s, pkt.from, pkt.msg)
      [] pkt.id = "ViewChangeReq" ->
             handleViewChangeMsg(s, pkt.from, pkt.msg, known, ord)

\* handleMsg relaying whatever the height of the message
handleMsg_NoGate(s, pkt, known, ord) ==
    LET s1 == dispatch(s, pkt, known, ord)
        pbft_msg == pkt.msg
        filter == {pkt.from} \cup
                  (IF pbft_msg.idx \in 0..(NodeNum - 1) THEN {pbft_msg.idx} ELSE {})
    IN IF pbft_msg.idx = pkt.from
       THEN broadcastMsg(s1, pkt.id, pbft_msg, filter)
       ELSE s1

\* PBFT::handleMsg: the handler, then the relay to the other miners
handleMsg(s, pkt, known, ord) ==
    LET s1 == dispatch(s, pkt, known, ord)
        pbft_msg == pkt.msg
        height_flag ==
            \/ pbft_msg.height > s1.m_highest_block.number
            \/ U256(s1.m_highest_block.number - pbft_msg.height) < 10
        filter == {pkt.from} \cup
                  (IF pbft_msg.idx \in 0..(NodeNum - 1) THEN {pbft_msg.idx} ELSE {})
    IN IF height_flag /\ pbft_msg.idx = pkt.from
       THEN broadcastMsg(s1, pkt.id, pbft_msg, filter)
       ELSE s1

\* PBFT::changeViewForEmptyBlockWithLock
changeViewForEmptyBlockWithLock(s) ==
    [s EXCEPT !.m_last_consensus_time = 0,
              !.m_last_sign_time = 0,
              !.m_change_cycle = 0,
              !.m_leader_failed = TRUE]

(***************************************************************************)
(* Verification of the signatures of a sealed block.  A public key is a    *)
(* number, NoKey the default-constructed one.  A signature of the list is  *)
(* a record of the key it was made with and the hash it was made over.     *)
(***************************************************************************)
NoKey == 0

\* size_t arithmetic, on a narrower word
SizeT(x) == x % 65536

\* miner_list.size() - (miner_list.size() - 1) / 3 of PBFT::checkBlockSign
minSigns(size) == SizeT(size - SizeT(size - 1) \div 3)

\* dev::verify
verify(pub, sig, hash) == sig.key = pub /\ sig.hash = hash

\* PBFT::getMinerList.  all_node is what getAllNodeConnInfo answers for the
\* block number, in the order of the map: records of a node's id, account
\* type and index.
getMinerList(all_node) ==
    LET miners == SelectSeq(all_node, LAMBDA e : e.type = "miner")
        miner_num == Len(miners)
        at(j) == {i \in 1..miner_num : miners[i].idx = j}
        last(I) == CHOOSE i \in I : \A k \in I : k <= i
    IN [ok |-> \A i \in 1..miner_num : miners[i].idx < miner_num,
        miner_list |-> [j \in 1..miner_num |->
                           IF at(j - 1) = {} THEN NoKey
                           ELSE miners[last(at(j - 1))].id]]

\* the loop over _sign_list in PBFT::checkBlockSign, from entry i on
RECURSIVE checkSignList(_, _, _, _)
checkSignList(miner_list, sign_list, hash, i) ==
    IF i > Len(sign_list) THEN TRUE
    ELSE IF sign_list[i][1] >= Len(miner_list) THEN FALSE
    ELSE IF ~verify(miner_list[sign_list[i][1] + 1], sign_list[i][2], hash) THEN FALSE
    ELSE checkSignList(miner_list, sign_list, hash, i + 1)

checkBlockSign_AnyCount(header, sign_list, all_node) ==
    LET r == getMinerList(all_node)
    IN IF ~r.ok THEN FALSE
       ELSE IF header.nodeList # r.miner_list THEN FALSE
       ELSE checkSignList(r.miner_list, sign_list, header.hash, 1)

\* PBFT::checkBlockSign.  header.hash is the header's hash without the seal.
checkBlockSign(header, sign_list, all_node) ==
    LET r == getMinerList(all_node)
        size == Len(r.miner_list)
    IN IF ~r.ok THEN FALSE
       ELSE IF header.nodeList # r.miner_list THEN FALSE
       ELSE IF Len(sign_list) < minSigns(size) THEN FALSE
       ELSE checkSignList(r.miner_list, sign_list, header.hash, 1)

(***************************************************************************)
(* The keys a peer is known to hold: per peer and per packet kind a queue  *)
(* without repetitions (exist, size, pop the oldest, push), modelled as a  *)
(* sequence.  The capacities are declared in PBFT.h; the model takes 1     *)
(* for each so that a few marks fill a queue.                              *)
(***************************************************************************)
kKnownPrepare == 1
kKnownSign == 1
kKnownCommit == 1
kKnownViewChange == 1

NewPeer ==
    [m_knownPrepare |-> << >>, m_knownSign |-> << >>,
     m_knownCommit |-> << >>, m_knownViewChange |-> << >>]

\* exist, then pop if size() > cap, then push
markKey(q, key, cap) ==
    IF \E i \in DOMAIN q : q[i] = key THEN q
    ELSE Append(IF Len(q) > cap THEN Tail(q) ELSE q, key)

\* PBFT::broadcastMark
broadcastMark(p, key, id) ==
    IF id = "PrepareReq"
    THEN [p EXCEPT !.m_knownPrepare = markKey(@, key, kKnownPrepare)]
    ELSE IF id = "SignReq"
    THEN [p EXCEPT !.m_knownSign = markKey(@, key, kKnownSign)]
    ELSE IF id = "ViewChangeReq"
    THEN [p EXCEPT !.m_knownViewChange = markKey(@, key, kKnownViewChange)]
    ELSE IF id = "CommitReq"
    THEN [p EXCEPT !.m_knownCommit = markKey(@, key, kKnownCommit)]
    ELSE p

\* PBFT::clearMask, for one peer
clearMask(p) == NewPeer

(***************************************************************************)
(* The environment: the peers that are not modelled and the host.          *)
(***************************************************************************)
\* a message of peer idx, signed with the given nonce
PeerReq(height, view, idx, hash, nonce, block) ==
    [height |-> height, view |-> view, idx |-> idx, block_hash |-> hash,
     sig |-> <<idx, nonce>>, sig2 |-> idx, block |-> block]

\* a packet as onPBFTMsg queues it at engine to: the packet id, the index of
\* the peer the session belongs to, and the message
Packet(id, from, to, msg) == [id |-> id, from |-> from, to |-> to, msg |-> msg]

\* the orders in which a map with the keys S can be iterated
Orders(S) ==
    {f \in [1..Cardinality(S) -> S] : \A i, j \in DOMAIN f : f[i] = f[j] => i = j}

\* PBFT::broadcastFilter: the peer is known to hold the key
broadcastFilter(p, key, id) ==
    IF id = "PrepareReq"
    THEN \E i \in DOMAIN p.m_knownPrepare : p.m_knownPrepare[i] = key
    ELSE IF id = "SignReq"
    THEN \E i \in DOMAIN p.m_knownSign : p.m_knownSign[i] = key
    ELSE IF id = "ViewChangeReq"
    THEN \E i \in DOMAIN p.m_knownViewChange : p.m_knownViewChange[i] = key
    ELSE IF id = "CommitReq"
    THEN \E i \in DOMAIN p.m_knownCommit : p.m_knownCommit[i] = key
    ELSE TRUE

\* a peer of the host: whether its session is up, the account type the
\* roster has for its node id ("none": getAccountType fails), and its
\* known-key queues
HostPeer(session, account) ==
    [session |-> session, account |-> account, known |-> NewPeer]

\* the loop of broadcastMsg leaving the peers of filter unmarked
visitPeer_SkipFiltered(c, k, key, id, filter) ==
    LET p == c.peers[k]
    IN IF ~p.session THEN c
       ELSE IF p.account # "miner" THEN c
       ELSE IF k \in filter THEN c
       ELSE IF broadcastFilter(p.known, key, id) THEN c
       ELSE [c EXCEPT !.written = Append(@, k),
                      !.peers[k].known = broadcastMark(@, key, id)]

\* the body of the foreachPeer loop of PBFT::broadcastMsg for peer k: c holds
\* the peers and the sequence of the peers written to so far
visitPeer(c, k, key, id, filter) ==
    LET p == c.peers[k]
    IN IF ~p.session THEN c
       ELSE IF p.account # "miner" THEN c
       ELSE IF k \in filter
            THEN [c EXCEPT !.peers[k].known = broadcastMark(@, key, id)]
       ELSE IF broadcastFilter(p.known, key, id) THEN c
       ELSE [c EXCEPT !.written = Append(@, k),
                      !.peers[k].known = broadcastMark(@, key, id)]

\* h->foreachPeer of PBFT::broadcastMsg, over the peers in the order ord
RECURSIVE foreachPeer(_, _, _, _, _)
foreachPeer(c, ord, key, id, filter) ==
    IF ord = << >> THEN c
    ELSE foreachPeer(visitPeer(c, Head(ord), key, id, filter), Tail(ord),
                     key, id, filter)

\* the order in which foreachPeer visits the peers S: that of the host's
\* map of sessions
RECURSIVE peerOrder(_)
peerOrder(S) ==
    IF S = {} THEN << >>
    ELSE LET k == CHOOSE x \in S : \A y \in S : x <= y
         IN <<k>> \o peerOrder(S \ {k})

\* PBFT::broadcastMsg with the host alive: the peers afterwards and the
\* sequence of the peers the packet was written to
broadcastPeers(peers, key, id, filter) ==
    foreachPeer([peers |-> peers, written |-> << >>],
                peerOrder(DOMAIN peers), key, id, filter)

\* PBFT::clearMask, for every peer with a session
clearMaskPeers(peers) ==
    [k \in DOMAIN peers |->
        IF peers[k].session THEN [peers[k] EXCEPT !.known = clearMask(@)]
        ELSE peers[k]]

\* PBFTMsg::uniqueKey: the fingerprint of a message
uniqueKey(msg) == <<msg.height, msg.view, msg.idx, msg.block_hash>>

\* the packets a call left in out, as the peers of the host get them: a
\* broadcast goes through broadcastMsg, a reply is written to its peer
RECURSIVE deliverOut(_, _)
deliverOut(peers, out) ==
    IF out = {} THEN peers
    ELSE LET p == CHOOSE x \in out : TRUE
             after == IF p.to = "miners"
                      THEN broadcastPeers(peers, uniqueKey(p.msg), p.id, p.filter).peers
                      ELSE peers
         IN deliverOut(after, out \ {p})

\* the packets a call left in out, as the modelled peers the host has a
\* session with receive them
Sent(n, s) ==
    UNION {{Packet(p.id, n, m, p.msg) :
               m \in {k \in (DOMAIN pbft \ {n}) \cap s.roster.sessions :
                         \/ p.to = "peer" /\ p.peer = k
                         \/ p.to = "miners" /\ pbft[k].roster.account = "miner"
                                            /\ k \notin p.filter}} :
           p \in s.out}

\* a call took engine n from its state to s: the packets of s.out are on
\* their way and the next call starts with nothing sent
Step(n, s) ==
    /\ pbft' = [pbft EXCEPT ![n] = [s EXCEPT !.out = {}]]
    /\ wire' = wire \cup Sent(n, s)
    /\ UNCHANGED call

\* the state a call starts from
Call(n) == pbft[n]

(***************************************************************************)
(* The actions: one per entry point of the engine.                         *)
(***************************************************************************)
\* workLoop pops a PrepareReq packet: handleMsg
HandlePrepare ==
    \E n \in DOMAIN pbft :
        \E pkt \in wire :
            /\ pkt.id = "PrepareReq" /\ pkt.to = n
            /\ Step(n, handleMsg(Call(n), pkt, FALSE, << >>))

\* workLoop pops a SignReq packet: handleMsg
HandleSign ==
    \E n \in DOMAIN pbft :
        \E pkt \in wire :
            /\ pkt.id = "SignReq" /\ pkt.to = n
            /\ Step(n, handleMsg(Call(n), pkt, FALSE, << >>))

\* workLoop pops a CommitReq packet: handleMsg
HandleCommit ==
    \E n \in DOMAIN pbft :
        \E pkt \in wire :
            /\ pkt.id = "CommitReq" /\ pkt.to = n
            /\ Step(n, handleMsg(Call(n), pkt, FALSE, << >>))

\* workLoop pops a ViewChangeReq packet: handleMsg
HandleViewChange ==
    \E n \in DOMAIN pbft :
        \E pkt \in wire :
            /\ pkt.id = "ViewChangeReq" /\ pkt.to = n
            /\ \E known \in BOOLEAN :
               \E ord \in Orders(DOMAIN pbft[n].m_recv_view_change_req \cup {pkt.msg.view}) :
                   Step(n, handleMsg(Call(n), pkt, known, ord))

\* workLoop: checkTimeout finds the interval expired
CheckTimeout ==
    \E n \in DOMAIN pbft :
        /\ pbft[n].m_to_view < MaxView
        /\ Step(n, checkTimeout(Call(n)))

\* workLoop: handleFutureBlock finds the parked proposal due
HandleFutureBlock ==
    \E n \in DOMAIN pbft :
        /\ pbft[n].m_future_prepare_cache[2].height = pbft[n].m_consensus_block_number
        /\ pbft[n].m_future_prepare_cache[2].view = pbft[n].m_view
        /\ Step(n, handleFutureBlock(Call(n)))

\* workLoop: collectGarbage finds the collect interval passed
CollectGarbage ==
    \E n \in DOMAIN pbft :
        Step(n, collectGarbage(Call(n)))

\* the host imports a block on top of its chain and reports it
ImportBlock ==
    \E n \in DOMAIN pbft :
        \E id \in {"a", "b"} :
            LET b == BlockHeader(<<pbft[n].bc_head.number + 1, id, 1>>)
            IN /\ pbft[n].bc_head.number < MaxHeight
               /\ Step(n, [reportBlock(Call(n), b) EXCEPT !.bc_head = b])

\* the host reports the head of its chain (at start-up, or once more)
ReportHead ==
    \E n \in DOMAIN pbft :
        Step(n, reportBlock(Call(n), pbft[n].bc_head))

\* the host asks shouldSeal
ShouldSeal ==
    \E n \in DOMAIN pbft :
        \E connected \in BOOLEAN :
            Step(n, [shouldSeal(Call(n), connected) EXCEPT
                         !.sealOK = shouldSealRet(Call(n))])

\* the host, told to seal, proposes the next block of its chain
GenerateSeal ==
    \E n \in DOMAIN pbft :
        /\ pbft[n].sealOK
        /\ \E id \in {"a"} :
               LET hash == <<pbft[n].bc_head.number + 1, id, 0>>
               IN Step(n, [generateSeal(Call(n), hash) EXCEPT
                               !.sealOK = FALSE,
                               !.pending = <<hash, pbft[n].m_view>>])

\* the host has executed the block it proposed
GenerateCommit ==
    \E n \in DOMAIN pbft :
        /\ pbft[n].pending # NoPending
        /\ Step(n, [generateCommit(Call(n), Reseal(pbft[n].pending[1]),
                                   pbft[n].pending[2]) EXCEPT
                        !.pending = NoPending])

\* the host, told to seal, has no transaction and gives the turn away
ChangeViewForEmptyBlock ==
    \E n \in DOMAIN pbft :
        /\ pbft[n].sealOK
        /\ pbft[n].m_omit_empty_block
        /\ Step(n, [changeViewForEmptyBlockWithLock(Call(n)) EXCEPT !.sealOK = FALSE])

\* the process stops and starts again: a new engine over the same backup
\* store, roster and chain
Restart ==
    \E n \in DOMAIN pbft :
        Step(n, [initEnv(NewPBFT(pbft[n].roster, pbft[n].m_omit_empty_block,
                                 pbft[n].m_backup_db)) EXCEPT
                     !.bc_head = pbft[n].bc_head])

\* Client::rewind: the chain goes back to an earlier block and reports it
Rewind ==
    \E n \in DOMAIN pbft :
        /\ pbft[n].bc_head.number > Genesis.number
        /\ Step(n, [reportBlock(Call(n), Genesis) EXCEPT !.bc_head = Genesis])

Next ==
    \/ HandlePrepare
    \/ HandleSign
    \/ HandleCommit
    \/ HandleViewChange
    \/ CheckTimeout
    \/ HandleFutureBlock
    \/ CollectGarbage
    \/ ImportBlock
    \/ ReportHead
    \/ ShouldSeal
    \/ GenerateSeal
    \/ GenerateCommit
    \/ ChangeViewForEmptyBlock
    \/ Restart

(***************************************************************************)
(* What the peers that are not modelled may send to engine to.  The chain  *)
(* starts at Genesis, so the engines agree on block 2.                     *)
(***************************************************************************)
\* the votes of the peers idxs for the blocks ids of number 2
Votes(to, id, idxs, views, nonces, ids) ==
    {Packet(id, i, to, PeerReq(2, v, i, <<2, b, 1>>, k, NoHash)) :
        i \in idxs, v \in views, k \in nonces, b \in ids}

\* the proposals of peer idx for the blocks ids of number 2
Proposals(to, idx, views, ids) ==
    {Packet("PrepareReq", idx, to, PeerReq(2, v, idx, <<2, b, 0>>, 0, <<2, b, 0>>)) :
        v \in views, b \in ids}

\* the view changes of the peers idxs at the genesis tip
ViewChanges(to, idxs, views) ==
    {Packet("ViewChangeReq", i, to, PeerReq(1, v, i, Genesis.hash, 0, NoHash)) :
        i \in idxs, v \in views}

\* no call is examined
NoCall == [fn |-> "none"]

\* the peers a host can have a session with
AllPeers == 0..(NodeNum - 1)

\* the engines nodes after construction and initEnv, with an empty backup
\* store and sessions with the given peers, and the packets pool on their way
InitWith(nodes, accounts, omits, sessions, pool) ==
    /\ \E account \in accounts :
       \E omit \in omits :
           pbft = [n \in nodes |->
                      initEnv(NewPBFT([account |-> account, idx |-> n,
                                       sessions |-> sessions], omit, EmptyMap))]
    /\ wire = pool
    /\ call = NoCall

(***************************************************************************)
(* Spec: engine 1 of four.  It is the leader of view 0; peer 2 leads view  *)
(* 1 and proposes the block again that engine 1 proposed in view 0.        *)
(***************************************************************************)
Pool ==
    Proposals(1, 2, {1}, {"a"})
      \cup Votes(1, "SignReq", {0, 2}, {0, 1}, {0}, {"a"})
      \cup Votes(1, "CommitReq", {0, 2}, {0, 1}, {0}, {"a"})
      \cup ViewChanges(1, {0, 2}, {1})

Init == InitWith({1}, {"miner", "normal", "none"}, {TRUE}, AllPeers, Pool)

Spec == Init /\ [][Next]_vars

(***************************************************************************)
(* SpecByz: engine 2 of four, a follower of leader 1 in view 0.  Leader 1  *)
(* proposes two blocks of number 2; peers 0 and 3 sign both, as engine 2   *)
(* does; peer 0 signs block a a second time with another nonce; peers 0    *)
(* and 1 commit block a.                                                   *)
(***************************************************************************)
PoolByz ==
    Proposals(2, 1, {0}, {"a", "b"})
      \cup Votes(2, "SignReq", {0, 3}, {0}, {0}, {"a", "b"})
      \cup Votes(2, "SignReq", {0}, {0}, {1}, {"a"})
      \cup Votes(2, "CommitReq", {0, 1}, {0}, {0}, {"a"})
      \cup ViewChanges(2, {0}, {1})

InitByz == InitWith({2}, {"miner"}, {TRUE}, AllPeers, PoolByz)

SpecByz == InitByz /\ [][Next]_vars

(***************************************************************************)
(* SpecView: engine 1 of four and the view changes of its peers 0 and 2    *)
(* for views 2 and 3 at the tip, and one of peer 3 for view 3 and another  *)
(* block of the tip's number.  Timeouts alone stop at toView 1; the view   *)
(* changes for view 3 take toView to 2.  Leader 3 proposes an empty block  *)
(* in view 2.                                                              *)
(***************************************************************************)
PoolView ==
    ViewChanges(1, {0, 2}, {2, 3})
      \cup {Packet("ViewChangeReq", 3, 1, PeerReq(1, 3, 3, <<1, "b", 1>>, 0, NoHash))}
      \cup Proposals(1, 3, {2}, {"empty"})
      \cup Votes(1, "SignReq", {0}, {2}, {0}, {"empty"})
      \cup Votes(1, "CommitReq", {0}, {2}, {0}, {"empty"})

InitView == InitWith({1}, {"miner"}, BOOLEAN, AllPeers, PoolView)

SpecView == InitView /\ [][Next]_vars

(***************************************************************************)
(* SpecNet: engines 0 and 2 of four, which have no session with each       *)
(* other.  Peer 3 is silent and peer 1, the leader of view 0, is           *)
(* Byzantine: it proposes block a to engine 0 and block b to engine 2, and *)
(* sends each of them two sign votes and two commit votes for its block,   *)
(* signed with different nonces.                                           *)
(***************************************************************************)
PoolNet ==
    Proposals(0, 1, {0}, {"a"})
      \cup Votes(0, "SignReq", {1}, {0}, {0, 1}, {"a"})
      \cup Votes(0, "CommitReq", {1}, {0}, {0, 1}, {"a"})
      \cup Proposals(2, 1, {0}, {"b"})
      \cup Votes(2, "SignReq", {1}, {0}, {0, 1}, {"b"})
      \cup Votes(2, "CommitReq", {1}, {0}, {0, 1}, {"b"})

\* the two engines have sessions with peers 1 and 3 only
InitNet == InitWith({0, 2}, {"miner"}, {TRUE}, {1, 3}, PoolNet)

\* message deliveries and reports of the chain head
NextNet ==
    \/ HandlePrepare
    \/ HandleSign
    \/ HandleCommit
    \/ ReportHead

SpecNet == InitNet /\ [][NextNet]_vars

(***************************************************************************)
(* SpecReport: engine 1 of four with one proposal, one vote of each kind   *)
(* and two view changes on their way, and a chain that can also go back    *)
(* to an earlier block (Client::rewind).                                   *)
(***************************************************************************)
PoolReport ==
    Proposals(1, 2, {1}, {"a"})
      \cup Votes(1, "SignReq", {0}, {0}, {0}, {"a"})
      \cup Votes(1, "CommitReq", {0}, {0}, {0}, {"a"})
      \cup ViewChanges(1, {0, 2}, {1})

InitReport == InitWith({1}, {"miner"}, {TRUE}, AllPeers, PoolReport)

NextReport ==
    \/ Next
    \/ Rewind

SpecReport == InitReport /\ [][NextReport]_vars

(***************************************************************************)
(* SpecStale: engine 1 of four, the leader of view 0, whose peers 0 and 2  *)
(* sign its block a in view 0, change to view 1, and sign and commit       *)
(* block b, which leader 2 proposes in view 1.                             *)
(***************************************************************************)
PoolStale ==
    Proposals(1, 2, {1}, {"b"})
      \cup Votes(1, "SignReq", {0, 2}, {0}, {0}, {"a"})
      \cup Votes(1, "SignReq", {0, 2}, {1}, {0}, {"b"})
      \cup Votes(1, "CommitReq", {0, 2}, {1}, {0}, {"b"})
      \cup ViewChanges(1, {0, 2}, {1})

InitStale == InitWith({1}, {"miner"}, {TRUE}, AllPeers, PoolStale)

SpecStale == InitStale /\ [][Next]_vars

(***************************************************************************)
(* SpecCycle: engine 1 of four, miner or observer, with no view change of  *)
(* a peer arriving: the timeout expires again and again, beyond            *)
(* kMaxChangeCycle expiries in a row, and blocks are imported in between.  *)
(***************************************************************************)
InitCycle == InitWith({1}, {"miner", "normal", "none"}, {TRUE}, AllPeers, {})

\* workLoop: checkTimeout finds the interval expired, any number of times
TimeoutCycle ==
    \E n \in DOMAIN pbft :
        /\ pbft[n].m_to_view < kMaxChangeCycle + 2
        /\ Step(n, checkTimeout(Call(n)))

NextCycle ==
    \/ TimeoutCycle
    \/ ReportHead
    \/ ImportBlock

SpecCycle == InitCycle /\ [][NextCycle]_vars

(***************************************************************************)
(* SpecSign: calls of checkBlockSign.  The arguments are drawn from the    *)
(* rosters, node lists and signature lists below; the block is block 2     *)
(* with pre-seal hash <<2, "a", 0>>.                                       *)
(***************************************************************************)
\* the public key of node i
Key(i) == i + 1

NodeInfo(i, type, idx) == [id |-> Key(i), type |-> type, idx |-> idx]

Rosters ==
    {<<NodeInfo(0, "miner", 0), NodeInfo(1, "miner", 1),
       NodeInfo(2, "miner", 2), NodeInfo(3, "miner", 3)>>,
     <<NodeInfo(0, "miner", 0), NodeInfo(1, "normal", 0),
       NodeInfo(2, "miner", 1), NodeInfo(3, "miner", 2)>>,
     <<NodeInfo(0, "miner", 0)>>,
     <<NodeInfo(1, "normal", 0)>>,
     <<NodeInfo(0, "miner", 0), NodeInfo(1, "miner", 2)>>,
     <<NodeInfo(0, "miner", 0), NodeInfo(1, "miner", 0)>>}

NodeLists ==
    {<<Key(0), Key(1), Key(2), Key(3)>>, <<Key(0), Key(2), Key(3)>>,
     <<Key(1), Key(0), Key(2), Key(3)>>, <<Key(0)>>, << >>, <<Key(1), NoKey>>}

SealHash == <<2, "a", 0>>

\* entries of a signature list: a valid signature of the node of the index,
\* one of another node, one over another hash; index 4 is in no roster
SignEntries ==
    {<<idx, [key |-> Key(k), hash |-> h]>> :
        idx \in {0, 1, 4}, k \in {0, 1}, h \in {SealHash, <<2, "b", 0>>}}

SignLists == UNION {[1..n -> SignEntries] : n \in 0..MaxSigs}

InitSign ==
    /\ pbft = EmptyMap
    /\ wire = {}
    /\ \E all_node \in Rosters :
       \E nodeList \in NodeLists :
       \E sign_list \in SignLists :
           call = [fn |-> "checkBlockSign",
                   header |-> [number |-> 2, hash |-> SealHash, nodeList |-> nodeList],
                   sign_list |-> sign_list, all_node |-> all_node,
                   done |-> FALSE, ret |-> FALSE]

CheckBlockSign ==
    /\ call.fn = "checkBlockSign"
    /\ ~call.done
    /\ call' = [call EXCEPT
                   !.done = TRUE,
                   !.ret = checkBlockSign(call.header, call.sign_list, call.all_node)]
    /\ UNCHANGED <<pbft, wire>>

NextSign == CheckBlockSign

SpecSign == InitSign /\ [][NextSign]_vars

(***************************************************************************)
(* SpecMark: the known-key queues of one peer under any sequence of marks  *)
(* (broadcastMsg marks the key of every packet it sends or filters) and    *)
(* clearMask calls.                                                        *)
(***************************************************************************)
InitMark ==
    /\ pbft = EmptyMap
    /\ wire = {}
    /\ call = [fn |-> "broadcastMark", peer |-> NewPeer]

BroadcastMark ==
    /\ call.fn = "broadcastMark"
    /\ \E key \in 1..MaxKeys :
       \E id \in {"PrepareReq", "SignReq", "CommitReq", "ViewChangeReq", "other"} :
           call' = [call EXCEPT !.peer = broadcastMark(@, key, id)]
    /\ UNCHANGED <<pbft, wire>>

ClearMask ==
    /\ call.fn = "broadcastMark"
    /\ call' = [call EXCEPT !.peer = clearMask(@)]
    /\ UNCHANGED <<pbft, wire>>

NextMark ==
    \/ BroadcastMark
    \/ ClearMask

SpecMark == InitMark /\ [][NextMark]_vars

(***************************************************************************)
(* SpecCast: broadcastMsg and clearMask over the three peers of a host.    *)
(* Peer 0 is a miner, an observer or unknown to the roster, peers 1 and 2  *)
(* are miners, the session of peer 2 may be down.  Any sequence of         *)
(* broadcasts of proposals and view changes, with every key and filter,    *)
(* and of clearMask calls.                                                 *)
(***************************************************************************)
PacketKinds == {"PrepareReq", "SignReq", "CommitReq", "ViewChangeReq"}

\* the kinds of the packets the engine of SpecCast broadcasts
CastKinds == {"PrepareReq", "ViewChangeReq"}

CastKeys == 1..MaxKeys

CastPeers == 0..2

InitCast ==
    /\ pbft = EmptyMap
    /\ wire = {}
    /\ \E account \in {"miner", "normal", "none"} :
       \E session \in BOOLEAN :
           call = [fn |-> "broadcastMsg",
                   peers |-> [k \in CastPeers |->
                                 HostPeer(k # 2 \/ session,
                                          IF k = 0 THEN account ELSE "miner")]]

\* a broadcastMsg call of the engine
BroadcastCast ==
    /\ call.fn = "broadcastMsg"
    /\ \E key \in CastKeys :
       \E id \in CastKinds :
       \E filter \in SUBSET CastPeers :
           call' = [call EXCEPT
                       !.peers = broadcastPeers(@, key, id, filter).peers]
    /\ UNCHANGED <<pbft, wire>>

\* reHandlePrepareReq calls clearMask
ClearMaskCast ==
    /\ call.fn = "broadcastMsg"
    /\ call' = [call EXCEPT !.peers = clearMaskPeers(@)]
    /\ UNCHANGED <<pbft, wire>>

NextCast ==
    \/ BroadcastCast
    \/ ClearMaskCast

SpecCast == InitCast /\ [][NextCast]_vars

(***************************************************************************)
(* SpecRelay: engine 2 of four on a chain whose head has number 11, with   *)
(* the known-key queues of its peers 0, 1 and 3.  Peer 3, the leader,      *)
(* proposes block a of number 12, and block b with a signature that is not *)
(* its own; peer 0 proposes a block without being the leader and passes    *)
(* on the leader's proposal; peers 0 and 1 sign block a; peer 0 also sends *)
(* sign votes for blocks 10 and 9 below the head and 11 above it.          *)
(***************************************************************************)
RelayHead == BlockHeader(<<Genesis.number + 10, "a", 1>>)

RelayPeers == AllPeers \ {2}

PoolRelay ==
    LET h == RelayHead.number
        leader == (h % NodeNum)
        prop(from, idx, b) ==
            Packet("PrepareReq", from, 2,
                   PeerReq(h + 1, 0, idx, <<h + 1, b, 0>>, 0, <<h + 1, b, 0>>))
        vote(idx, height) ==
            Packet("SignReq", idx, 2,
                   PeerReq(height, 0, idx, <<height, "a", 1>>, 0, NoHash))
    IN {prop(leader, leader, "a"), prop(0, leader, "a"), prop(0, 0, "b"),
        [prop(leader, leader, "b") EXCEPT !.msg.sig2 = 0],
        vote(0, h + 1), vote(1, h + 1),
        vote(0, h - 10), vote(0, h - 9), vote(0, h + 11)}

InitRelay ==
    /\ pbft = [n \in {2} |->
                  [initEnv(NewPBFT([account |-> "miner", idx |-> n,
                                    sessions |-> AllPeers], TRUE, EmptyMap))
                      EXCEPT !.bc_head = RelayHead]]
    /\ wire = PoolRelay
    /\ \E account \in {"miner", "normal"} :
           call = [fn |-> "handleMsg",
                   peers |-> [k \in RelayPeers |->
                                 HostPeer(TRUE, IF k = 1 THEN account ELSE "miner")]]

\* a call took engine n to s: its packets go through the peers' queues
RelayStep(n, s) ==
    /\ pbft' = [pbft EXCEPT ![n] = [s EXCEPT !.out = {}]]
    /\ wire' = wire \cup Sent(n, s)
    /\ call' = [call EXCEPT !.peers = deliverOut(@, s.out)]

\* workLoop pops a PrepareReq packet: handleMsg
RelayPrepare ==
    \E n \in DOMAIN pbft :
        \E pkt \in wire :
            /\ pkt.id = "PrepareReq" /\ pkt.to = n
            /\ RelayStep(n, handleMsg(Call(n), pkt, FALSE, << >>))

\* workLoop pops a SignReq packet: handleMsg
RelaySign ==
    \E n \in DOMAIN pbft :
        \E pkt \in wire :
            /\ pkt.id = "SignReq" /\ pkt.to = n
            /\ RelayStep(n, handleMsg(Call(n), pkt, FALSE, << >>))

\* the host reports the head of its chain
RelayReport ==
    \E n \in DOMAIN pbft :
        RelayStep(n, reportBlock(Call(n), pbft[n].bc_head))

NextRelay ==
    \/ RelayPrepare
    \/ RelaySign
    \/ RelayReport

SpecRelay == InitRelay /\ [][NextRelay]_vars

(***************************************************************************)
(* SpecQuorum: the two places that compute the number of votes needed,     *)
(* resetConfig with quorum() for the engine and checkBlockSign for a       *)
(* sealed block, for every roster size up to MaxRoster.                    *)
(***************************************************************************)
InitQuorum ==
    /\ pbft = EmptyMap
    /\ wire = {}
    /\ \E N \in 1..MaxRoster :
           call = [fn |-> "quorum", node_num |-> N,
                   configured |-> FALSE, m_f |-> 0, quorum |-> 0,
                   checked |-> FALSE, min_signs |-> 0]

\* resetConfig sets m_f, quorum() reads it
ConfigQuorum ==
    /\ call.fn = "quorum"
    /\ ~call.configured
    /\ call' = [call EXCEPT
                   !.configured = TRUE,
                   !.m_f = maxFaulty(call.node_num),
                   !.quorum = quorum([m_node_num |-> call.node_num,
                                      m_f |-> maxFaulty(call.node_num)])]
    /\ UNCHANGED <<pbft, wire>>

\* checkBlockSign computes the count it requires
CheckQuorum ==
    /\ call.fn = "quorum"
    /\ ~call.checked
    /\ call' = [call EXCEPT !.checked = TRUE,
                            !.min_signs = minSigns(call.node_num)]
    /\ UNCHANGED <<pbft, wire>>

NextQuorum ==
    \/ ConfigQuorum
    \/ CheckQuorum

SpecQuorum == InitQuorum /\ [][NextQuorum]_vars

(***************************************************************************)
(* SpecHappy: the happy path of four honest nodes at tip Genesis, every    *)
(* message delivered once, in any order, seen from one engine: engine 0,   *)
(* a follower, or engine 1, the primary of view 0.  The other three are    *)
(* honest nodes that handle the proposal first and the votes as they       *)
(* come: the primary proposes, each node signs once the proposal is out    *)
(* and commits once three nodes, itself among them, have signed.  No       *)
(* timeout expires.                                                        *)
(***************************************************************************)
\* the primary has broadcast its proposal
Proposed ==
    \/ call.proposed
    \/ 1 \in DOMAIN pbft /\ pbft[1].m_raw_prepare_cache # EmptyReq

\* the nodes whose sign vote for the block is out
Signers ==
    call.signed \cup
        {n \in DOMAIN pbft :
            \E h \in DOMAIN pbft[n].m_sign_cache :
                \E k \in DOMAIN pbft[n].m_sign_cache[h] :
                    pbft[n].m_sign_cache[h][k].idx = n}

\* the engine starts, and the host reports the head of the chain
InitHappy ==
    /\ \E e \in {0, 1} :
           pbft = [n \in {e} |->
                      reportBlock(initEnv(NewPBFT([account |-> "miner", idx |-> n,
                                                   sessions |-> AllPeers],
                                                  TRUE, EmptyMap)),
                                  Genesis)]
    /\ wire = {}
    /\ call = [fn |-> "peers", proposed |-> FALSE, signed |-> {}, committed |-> {}]

\* workLoop pops the next packet of the queue: handleMsg
WorkLoop ==
    \E n \in DOMAIN pbft :
        \E pkt \in wire :
            /\ pkt.to = n
            /\ \E known \in BOOLEAN :
               \E ord \in Orders(IF pkt.id = "ViewChangeReq"
                                 THEN DOMAIN pbft[n].m_recv_view_change_req
                                          \cup {pkt.msg.view}
                                 ELSE {}) :
                   LET s == handleMsg(Call(n), pkt, known, ord)
                   IN /\ pbft' = [pbft EXCEPT ![n] = [s EXCEPT !.out = {}]]
                      /\ wire' = (wire \ {pkt}) \cup Sent(n, s)
                      /\ UNCHANGED call

\* Client::rejigSealing: the host asks shouldSeal and, told to seal,
\* proposes the next block of its chain
RejigSealing ==
    \E n \in DOMAIN pbft :
        /\ pbft[n].pending = NoPending
        /\ LET s == shouldSeal(Call(n), TRUE)
               hash == <<pbft[n].bc_head.number + 1, "a", 0>>
           IN IF shouldSealRet(Call(n))
              THEN Step(n, [generateSeal(s, hash) EXCEPT
                                !.pending = <<hash, s.m_view>>])
              ELSE Step(n, s)

\* peer 1, the primary, proposes block a of number 2
PeerPropose ==
    /\ 1 \notin DOMAIN pbft
    /\ ~call.proposed
    /\ wire' = wire \cup UNION {Proposals(n, 1, {0}, {"a"}) : n \in DOMAIN pbft}
    /\ call' = [call EXCEPT !.proposed = TRUE]
    /\ UNCHANGED pbft

\* peer k has the executed proposal and broadcasts its sign vote
PeerSign ==
    \E k \in (AllPeers \ DOMAIN pbft) \ call.signed :
        /\ Proposed
        /\ wire' = wire \cup UNION {Votes(n, "SignReq", {k}, {0}, {0}, {"a"}) :
                                       n \in DOMAIN pbft}
        /\ call' = [call EXCEPT !.signed = @ \cup {k}]
        /\ UNCHANGED pbft

\* peer k holds three sign votes, its own among them, and broadcasts its
\* commit vote
PeerCommit ==
    \E k \in call.signed \ call.committed :
        /\ Cardinality(Signers) >= NodeNum - maxFaulty(NodeNum)
        /\ wire' = wire \cup UNION {Votes(n, "CommitReq", {k}, {0}, {0}, {"a"}) :
                                       n \in DOMAIN pbft}
        /\ call' = [call EXCEPT !.committed = @ \cup {k}]
        /\ UNCHANGED pbft

NextHappy ==
    \/ WorkLoop
    \/ RejigSealing
    \/ GenerateCommit
    \/ PeerPropose
    \/ PeerSign
    \/ PeerCommit

\* the host of engine n would be told to seal and has no block in execution
ReadyToSeal(n) ==
    /\ pbft[n].pending = NoPending
    /\ shouldSealRet(pbft[n])

\* Every queued packet is handled, the hosts keep sealing and executing, the
\* peers keep voting.  For the three steps of the engine weak fairness is
\* stated by what it comes to here: at most seven packets are ever queued
\* and WorkLoop takes one away, so WF_vars(WorkLoop) is that the queue is
\* empty again and again; GenerateCommit is possible exactly while a block is
\* pending and leaves none pending; RejigSealing proposes when ReadyToSeal.
FairHappy ==
    /\ []<>(wire = {})
    /\ []<>(\A n \in DOMAIN pbft : pbft[n].pending = NoPending)
    /\ []<>(\A n \in DOMAIN pbft : ~ReadyToSeal(n))
    /\ WF_vars(PeerPropose)
    /\ WF_vars(PeerSign)
    /\ WF_vars(PeerCommit)

SpecHappy == InitHappy /\ [][NextHappy]_vars /\ FairHappy

(***************************************************************************)
(* SpecCrash: node 1, the primary of view 0 at tip Genesis, has crashed    *)
(* and proposes nothing.  One of the live nodes 0, 2 and 3 runs the code;  *)
(* the other two are honest nodes whose timers expire and that broadcast   *)
(* their view change for view 1.  The timer of the engine can expire more  *)
(* than once.                                                              *)
(***************************************************************************)
LiveNodes == {0, 2, 3}

InitCrash ==
    /\ \E e \in LiveNodes :
           pbft = [n \in {e} |->
                      reportBlock(initEnv(NewPBFT([account |-> "miner", idx |-> n,
                                                   sessions |-> AllPeers],
                                                  TRUE, EmptyMap)),
                                  Genesis)]
    /\ wire = {}
    /\ call = [fn |-> "crash", timedOut |-> {}, sent |-> {}]

\* workLoop: checkTimeout finds the interval expired; the peers get the view
\* change it broadcasts
CrashTimeout ==
    \E n \in DOMAIN pbft :
        /\ pbft[n].m_to_view < MaxView + 2
        /\ LET s == checkTimeout(Call(n))
           IN /\ pbft' = [pbft EXCEPT ![n] = [s EXCEPT !.out = {}]]
              /\ call' = [call EXCEPT !.sent =
                             @ \cup {p.msg : p \in {q \in s.out : q.id = "ViewChangeReq"}}]
              /\ UNCHANGED wire

\* the timer of peer k expires: it broadcasts its view change for view 1
PeerTimeout ==
    \E k \in (LiveNodes \ DOMAIN pbft) \ call.timedOut :
        /\ wire' = wire \cup UNION {ViewChanges(n, {k}, {1}) : n \in DOMAIN pbft}
        /\ call' = [call EXCEPT !.timedOut = @ \cup {k}]
        /\ UNCHANGED pbft

NextCrash ==
    \/ CrashTimeout
    \/ PeerTimeout
    \/ WorkLoop
    \/ RejigSealing
    \/ GenerateCommit

\* workLoop runs for ever: the timers expire and every queued packet is
\* handled
FairCrash ==
    /\ WF_vars(CrashTimeout)
    /\ WF_vars(PeerTimeout)
    /\ WF_vars(WorkLoop)

SpecCrash == InitCrash /\ [][NextCrash]_vars /\ FairCrash

(***************************************************************************)
(* SpecLoop: the iterations of workLoop at engine 1 of four.  The queue    *)
(* holds the view changes of peers 0 and 2 for view 1; peers 0 and 2 can   *)
(* at any time send a packet whose fields do not decode, which makes       *)
(* populate throw inside handleMsg.  The consensus interval elapses at     *)
(* any moment; call.expired says that it has elapsed since the anchors     *)
(* were last set, call.turn is the parity of the number of iterations.     *)
(***************************************************************************)
\* a field of the message does not decode as a u256: populate throws
BadRLP(msg) == msg.height > Invalid256

\* a packet of peer from that does not decode
BadPacket(from, to) ==
    Packet("SignReq", from, to,
           PeerReq(Invalid256 + 1, 0, from, <<0, "a", 0>>, 0, NoHash))

\* m_msg_queue of engine n
msg_queue(n) == {pkt \in wire : pkt.to = n}

\* the packets tryPop can return: the queue is first in, first out, and the
\* view changes were queued before the first packet that does not decode
front(n) ==
    LET first == {pkt \in msg_queue(n) : ~BadRLP(pkt.msg)}
    IN IF first # {} THEN first ELSE msg_queue(n)

InitLoop ==
    /\ \E account \in {"miner", "normal"} :
           pbft = [n \in {1} |->
                      reportBlock(initEnv(NewPBFT([account |-> account, idx |-> n,
                                                   sessions |-> AllPeers],
                                                  TRUE, EmptyMap)),
                                  Genesis)]
    /\ wire = ViewChanges(1, {0, 2}, {1})
    /\ call = [fn |-> "workLoop", expired |-> FALSE, turn |-> 0]

\* the clock reaches the end of the consensus interval
IntervalElapses ==
    /\ call.fn = "workLoop"
    /\ ~call.expired
    /\ \A n \in DOMAIN pbft : pbft[n].m_to_view < MaxView + 1
    /\ call' = [call EXCEPT !.expired = TRUE]
    /\ UNCHANGED <<pbft, wire>>

\* onPBFTMsg queues a packet of a peer that does not decode
QueueBadPacket ==
    /\ call.fn = "workLoop"
    /\ \E n \in DOMAIN pbft :
       \E from \in {0, 2} :
           /\ BadPacket(from, n) \notin wire
           /\ wire' = wire \cup {BadPacket(from, n)}
    /\ UNCHANGED <<pbft, call>>

\* the calls of an iteration of workLoop after the message, if any
afterMsg(s, expired, collect) ==
    LET s1 == IF expired THEN checkTimeout(s) ELSE s
        s2 == handleFutureBlock(s1)
    IN IF collect THEN collectGarbage(s2) ELSE s2

\* an iteration of PBFT::workLoop: tryPop, handleMsg if there is a packet,
\* then checkTimeout, handleFutureBlock and collectGarbage; an exception of
\* handleMsg ends the iteration in the catch clause
Iteration(n, collect) ==
    IF msg_queue(n) = {}
    THEN LET s == afterMsg(Call(n), call.expired, collect)
         IN /\ pbft' = [pbft EXCEPT ![n] = [s EXCEPT !.out = {}]]
            /\ wire' = wire \cup Sent(n, s)
            /\ call' = [call EXCEPT !.expired = FALSE, !.turn = 1 - @]
    ELSE \E pkt \in front(n) :
             IF BadRLP(pkt.msg)
             THEN /\ wire' = wire \ {pkt}
                  /\ call' = [call EXCEPT !.turn = 1 - @]
                  /\ UNCHANGED pbft
             ELSE \E known \in BOOLEAN :
                  \E ord \in Orders(IF pkt.id = "ViewChangeReq"
                                    THEN DOMAIN pbft[n].m_recv_view_change_req
                                             \cup {pkt.msg.view}
                                    ELSE {}) :
                      LET s == afterMsg(handleMsg(Call(n), pkt, known, ord),
                                        call.expired, collect)
                      IN /\ pbft' = [pbft EXCEPT ![n] = [s EXCEPT !.out = {}]]
                         /\ wire' = (wire \ {pkt}) \cup Sent(n, s)
                         /\ call' = [call EXCEPT !.expired = FALSE, !.turn = 1 - @]

\* the worker thread runs an iteration
LoopIteration ==
    /\ call.fn = "workLoop"
    /\ \E n \in DOMAIN pbft :
       \E collect \in BOOLEAN :
           Iteration(n, collect)

NextLoop ==
    \/ LoopIteration
    \/ IntervalElapses
    \/ QueueBadPacket

\* workLoop runs for ever, iteration after iteration, and the clock goes on
FairLoop ==
    /\ []<>(call.turn = 0)
    /\ []<>(call.turn = 1)
    /\ WF_vars(IntervalElapses)

SpecLoop == InitLoop /\ [][NextLoop]_vars /\ FairLoop

(***************************************************************************)
(* Properties.                                                             *)
(***************************************************************************)
\* engine n has called m_onSealGenerated for i and j, two calls
TwoEmissions(n, i, j) ==
    /\ i \in DOMAIN pbft[n].emitted
    /\ j \in DOMAIN pbft[n].emitted
    /\ i # j

C4_EmissionPreconditions ==
    [][\A n \in DOMAIN pbft :
          Len(pbft'[n].emitted) > Len(pbft[n].emitted) =>
              LET s == pbft'[n]
                  h == s.emitted[Len(s.emitted)].hash
              IN /\ h = s.m_prepare_cache.block_hash
                 /\ Size(Get(s.m_sign_cache, h)) >= quorum(s)
                 /\ Size(Get(s.m_commit_cache, h)) >= quorum(s)
                 /\ h \notin pbft[n].m_commitMap
                 /\ h \in s.m_commitMap
                 /\ s.m_prepare_cache.view = s.m_view
                 /\ s.m_prepare_cache.height > s.m_highest_block.number]_vars

\* an engine of a roster of four has handed a block over
C4_Witness ==
    \E n \in DOMAIN pbft :
        /\ pbft[n].emitted # << >>
        /\ quorum(pbft[n]) = 3

Rebroadcasts(s, connected) ==
    \E p \in shouldSeal([s EXCEPT !.out = {}], connected).out :
        /\ p.id = "PrepareReq"
        /\ p.to = "miners"
        /\ p.msg.block_hash = s.m_committed_prepare_cache.block_hash
        /\ p.msg.block = s.m_committed_prepare_cache.block
        /\ p.msg.height = s.m_committed_prepare_cache.height
        /\ p.msg.view = s.m_view
        /\ p.msg.idx = s.m_node_idx

\* the node is the leader getLeader computes
IsLeader(s) ==
    /\ ~s.m_cfg_err
    /\ ~s.m_leader_failed
    /\ s.m_highest_block.number # Invalid256
    /\ U256(s.m_view + s.m_highest_block.number) % s.m_node_num = s.m_node_idx

C10_GateAsStated ==
    \A n \in DOMAIN pbft :
        shouldSealRet(pbft[n])
            <=> /\ pbft[n].m_account_type = "miner"
                /\ ~pbft[n].m_cfg_err
                /\ U256(pbft[n].m_view + pbft[n].m_highest_block.number)
                       % pbft[n].m_node_num = pbft[n].m_node_idx
                /\ \/ pbft[n].m_committed_prepare_cache = EmptyReq
                   \/ pbft[n].m_consensus_block_number
                          > pbft[n].m_committed_prepare_cache.height

\* C10, amended: shouldSeal returns true iff the node is a miner, the roster
\* lookup succeeded, the leader has not been marked failed, the chain tip is
\* known, (view + chainTip) mod N = selfIdx, and consensusHeight differs from
\* committedPrepare.height.
C10_Gate ==
    \A n \in DOMAIN pbft :
        shouldSealRet(pbft[n])
            <=> /\ pbft[n].m_account_type = "miner"
                /\ IsLeader(pbft[n])
                /\ pbft[n].m_consensus_block_number
                       # pbft[n].m_committed_prepare_cache.height

\* shouldSeal has returned true to the host
C10_Witness ==
    \E n \in DOMAIN pbft : pbft[n].sealOK

\* the votes of bucket c[h] cast for one height and view
VotesFor(c, h, height, view) ==
    {k \in DOMAIN c[h] : c[h][k].height = height /\ c[h][k].view = view}

\* C3: at an engine there are never two distinct block hashes whose signCache
\* buckets both hold at least quorum votes of one height and one view.
C3_QuorumSafety ==
    \A n \in DOMAIN pbft :
        \A h1, h2 \in DOMAIN pbft[n].m_sign_cache :
            \A height \in 0..MaxHeight + 1 :
                \A view \in 0..MaxView + 1 :
                    /\ Cardinality(VotesFor(pbft[n].m_sign_cache, h1, height, view))
                           >= quorum(pbft[n])
                    /\ Cardinality(VotesFor(pbft[n].m_sign_cache, h2, height, view))
                           >= quorum(pbft[n])
                    => h1 = h2

\* no signer idx has two entries in a bucket of the cache c
OnePerSigner(c) ==
    \A h \in DOMAIN c :
        \A k1, k2 \in DOMAIN c[h] :
            c[h][k1].idx = c[h][k2].idx => k1 = k2

\* C5: for every block hash, signCache and commitCache each hold at most one
\* entry per signer idx, so a further valid vote of a signer that already has
\* an entry leaves the cache and the vote count unchanged.
C5_OneVotePerSigner ==
    \A n \in DOMAIN pbft :
        /\ OnePerSigner(pbft[n].m_sign_cache)
        /\ OnePerSigner(pbft[n].m_commit_cache)

\* C6 as stated: every commit vote counted for a block handed to
\* m_onSealGenerated is of a signer whose sign vote for the block is held.
C6_CommitNeedsSign ==
    \A n \in DOMAIN pbft :
        \A i \in DOMAIN pbft[n].emitted :
            {v[1] : v \in pbft[n].emitted[i].sig_list}
                \subseteq pbft[n].emitted[i].signers

\* C6, amended: checkAndSave counts the entries of commitCache[h] and of
\* signCache[h] separately; a block is handed over when each count is at
\* least quorum, whoever the signers are.
C6_IndependentQuorums ==
    \A n \in DOMAIN pbft :
        \A i \in DOMAIN pbft[n].emitted :
            /\ Cardinality(pbft[n].emitted[i].sig_list) >= quorum(pbft[n])
            /\ pbft[n].emitted[i].have_sign >= quorum(pbft[n])

\* a block was handed over with the commit vote of a signer whose sign vote
\* is not held
C6_Witness ==
    \E n \in DOMAIN pbft :
        \E i \in DOMAIN pbft[n].emitted :
            \E v \in pbft[n].emitted[i].sig_list :
                v[1] \notin pbft[n].emitted[i].signers

\* C1: no two engines call m_onSealGenerated for the same block height with
\* different block hashes, with at most f Byzantine peers.
C1_Agreement ==
    \A n, m \in DOMAIN pbft :
        \A i \in DOMAIN pbft[n].emitted :
            \A j \in DOMAIN pbft[m].emitted :
                pbft[n].emitted[i].height = pbft[m].emitted[j].height
                    => pbft[n].emitted[i].hash = pbft[m].emitted[j].hash

\* C8: in every step that leaves consensusHeight as it is, the view does not
\* decrease.
C8_ViewMonotonic ==
    [][\A n \in DOMAIN pbft :
          pbft'[n].m_consensus_block_number = pbft[n].m_consensus_block_number
              => pbft'[n].m_view >= pbft[n].m_view]_vars

\* an engine has moved from view 0 to view 2 at height 2; toView 2 is above
\* what timeouts reach, so a fast view change took it there
C8_Witness ==
    \E n \in DOMAIN pbft :
        /\ pbft[n].m_view = 2
        /\ pbft[n].m_consensus_block_number = 2

\* C19: toView >= view in every reachable state.
C19_ToViewAtLeastView ==
    \A n \in DOMAIN pbft : pbft[n].m_to_view >= pbft[n].m_view

\* toView is two views ahead of the view: timeouts stop at toView 1, so a
\* fast view-change jump has set it
C19_Witness ==
    \E n \in DOMAIN pbft :
        /\ pbft[n].m_to_view = 2
        /\ pbft[n].m_view = 0

\* C20: once the chain tip has been reported, consensusHeight == chainTip + 1,
\* so (view + consensusHeight - 1) mod N is the (view + chainTip) mod N of
\* getLeader, also after a report of a block lower than the tip.
C20_FormulasAgree ==
    \A n \in DOMAIN pbft :
        LET s == pbft[n]
        IN s.m_highest_block.number # Invalid256 /\ s.m_node_num > 0
               => /\ s.m_consensus_block_number = s.m_highest_block.number + 1
                  /\ (s.m_view + s.m_consensus_block_number - 1) % s.m_node_num
                         = (s.m_view + s.m_highest_block.number) % s.m_node_num

\* the headers the chain can report
Headers == {BlockHeader(<<h, id, 1>>) : h \in 1..(MaxHeight + 1), id \in {"a", "b"}}

\* C16: a second reportBlock with the same header, right after the first,
\* leaves the whole state as the first call left it.
C16_IdempotentReports ==
    \A n \in DOMAIN pbft :
        \A b \in Headers :
            reportBlock(reportBlock(pbft[n], b), b) = reportBlock(pbft[n], b)

\* an engine in view 1 with votes cached for a block: the report of that
\* block resets the view and drops the votes
C16_Witness ==
    \E n \in DOMAIN pbft :
        \E b \in Headers :
            /\ pbft[n].m_view = 1
            /\ b.hash \in DOMAIN pbft[n].m_sign_cache
            /\ b.number >= pbft[n].m_consensus_block_number

\* C12: checkBlockSign returns true exactly when the header's node list is
\* the roster snapshot, the signature list has at least N - f entries (N the
\* size of the snapshot, f = floor((N - 1) / 3)), and every entry has idx < N
\* and a signature that verifies against the key of idx over the pre-seal
\* hash of the header.
C12_CheckBlockSign ==
    call.fn = "checkBlockSign" /\ call.done =>
        LET r == getMinerList(call.all_node)
            N == Len(r.miner_list)
            f == (N - 1) \div 3
        IN call.ret <=>
               /\ r.ok
               /\ call.header.nodeList = r.miner_list
               /\ Len(call.sign_list) >= N - f
               /\ \A i \in DOMAIN call.sign_list :
                      /\ call.sign_list[i][1] < N
                      /\ verify(r.miner_list[call.sign_list[i][1] + 1],
                                call.sign_list[i][2], call.header.hash)

\* a block of a roster of four was accepted with three signatures
C12_Witness ==
    /\ call.fn = "checkBlockSign"
    /\ call.done
    /\ call.ret
    /\ Len(call.header.nodeList) = 4
    /\ Len(call.sign_list) = 3

\* C17: each known-key queue of a peer holds at most its configured capacity
\* of entries.
C17_PeerSeenBounds ==
    call.fn = "broadcastMark" =>
        /\ Len(call.peer.m_knownPrepare) <= kKnownPrepare
        /\ Len(call.peer.m_knownSign) <= kKnownSign
        /\ Len(call.peer.m_knownCommit) <= kKnownCommit
        /\ Len(call.peer.m_knownViewChange) <= kKnownViewChange

\* C18 as stated: for every roster size N in 1..40 with f = floor((N-1)/3),
\* the quorum N - f equals 2f + 1.
C18_QuorumIsTwoFPlusOne ==
    call.fn = "quorum" /\ call.configured /\ call.checked =>
        LET f == (call.node_num - 1) \div 3
        IN /\ call.quorum = call.node_num - f
           /\ call.min_signs = call.node_num - f
           /\ call.node_num - f = 2 * f + 1

\* C18, amended: the quorum is N - f in both places; it is at least 2f + 1
\* and equals 2f + 1 exactly when N = 3f + 1.
C18_QuorumAtLeastTwoFPlusOne ==
    call.fn = "quorum" /\ call.configured /\ call.checked =>
        LET f == (call.node_num - 1) \div 3
        IN /\ call.m_f = f
           /\ call.quorum = call.node_num - f
           /\ call.min_signs = call.node_num - f
           /\ call.node_num - f >= 2 * f + 1
           /\ call.node_num - f = 2 * f + 1 <=> call.node_num = 3 * f + 1

\* the quorum of a roster of 6 has been computed in both places: it is 5,
\* two more than 2f + 1 = 3
C18_Witness ==
    /\ call.fn = "quorum"
    /\ call.configured
    /\ call.checked
    /\ call.node_num = 6
    /\ call.quorum = 5
    /\ call.min_signs = 5

NewOwnCommits(s, s2) ==
    {c \in UNION {{s2.m_commit_cache[h][k] : k \in DOMAIN s2.m_commit_cache[h]} :
                     h \in DOMAIN s2.m_commit_cache} :
        /\ c.idx = s2.m_node_idx
        /\ \/ c.block_hash \notin DOMAIN s.m_commit_cache
           \/ c.sig \notin DOMAIN s.m_commit_cache[c.block_hash]
           \/ s.m_commit_cache[c.block_hash][c.sig] # c}

\* the proposal the backup store of engine state s holds
Stored(s) == populate(s.m_backup_db["committed"])

\* C11: the backup key "committed" is written only when the sign quorum is
\* reached, and when the node broadcasts a Commit for a proposal the store
\* already holds that proposal; a restart restores committedPrepare to what
\* the store holds.
C11_BackupBeforeCommit ==
    [][\A n \in DOMAIN pbft :
          LET s == pbft[n]
              s2 == pbft'[n]
          IN /\ s2.m_backup_db # s.m_backup_db =>
                    /\ Size(s2.m_sign_cache[s2.m_prepare_cache.block_hash]) = quorum(s2)
                    /\ Stored(s2) = s2.m_raw_prepare_cache
             /\ \A c \in NewOwnCommits(s, s2) :
                    /\ "committed" \in DOMAIN s2.m_backup_db
                    /\ Stored(s2).height = c.height
                    /\ Stored(s2).view = c.view
                    /\ Reseal(Stored(s2).block_hash) = c.block_hash
             /\ "committed" \in DOMAIN s2.m_backup_db =>
                    s2.m_committed_prepare_cache = Stored(s2)]_vars

\* an engine that broadcast a Commit for a proposal of height 2 was restarted:
\* it holds no vote, and committedPrepare is the proposal again
C11_Witness ==
    \E n \in DOMAIN pbft :
        /\ "committed" \in DOMAIN pbft[n].m_backup_db
        /\ pbft[n].m_committed_prepare_cache.height = 2
        /\ pbft[n].m_commit_cache = EmptyMap
        /\ pbft[n].m_highest_block = NoBlockHeader

\* engine n holds its own vote in cache c
OwnVote(c, n) ==
    \E h \in DOMAIN c : \E k \in DOMAIN c[h] : c[h][k].idx = n

\* engine n has broadcast Sign and Commit and called m_onSealGenerated once,
\* with isPrimary telling whether it is the primary
HappyDone(n) ==
    /\ OwnVote(pbft[n].m_sign_cache, n)
    /\ OwnVote(pbft[n].m_commit_cache, n)
    /\ Len(pbft[n].emitted) = 1
    /\ pbft[n].emitted[1].isPrimary = (n = 1)

\* C13: on the happy path, once the primary has proposed, every node
\* eventually has broadcast Sign and Commit, has collected the quorum and has
\* called onSealGenerated exactly once, with isPrimary == (self == primary).
C13_HappyPathLiveness ==
    Proposed ~> (\A n \in DOMAIN pbft : HappyDone(n))

\* the follower, engine 0, got through the happy path
C13_Witness ==
    /\ Proposed
    /\ 0 \in DOMAIN pbft
    /\ HappyDone(0)
    /\ wire = {}

\* engine n has broadcast its view change for view 1 at the tip
SentViewChange(n) ==
    \E m \in call.sent :
        /\ m.idx = n
        /\ m.view = 1
        /\ m.height = pbft[n].bc_head.number

\* engine n is in view 1, the leader is not marked failed, the primary is
\* node (1 + chainTip) mod N
CrashChanged(n) ==
    /\ SentViewChange(n)
    /\ pbft[n].m_view = 1
    /\ ~pbft[n].m_leader_failed
    /\ getLeader(pbft[n]) = <<TRUE, (1 + pbft[n].bc_head.number) % NodeNum>>

C21_OneCommitPerHeight ==
    [][\A n \in DOMAIN pbft :
          \A c \in NewOwnCommits(pbft[n], pbft'[n]) :
              \A i \in DOMAIN pbft[n].emitted :
                  (/\ pbft[n].emitted[i].height = c.height
                   /\ \E v \in pbft[n].emitted[i].sig_list : v[1] = n)
                      => pbft[n].emitted[i].hash = c.block_hash]_vars

\* C21, second part: once committedPrepare is set for a height, rawPrepare
\* of that height is not replaced by a proposal with another hash.
C21_RawKeepsCommittedHash ==
    [][\A n \in DOMAIN pbft :
          LET s == pbft[n]
              s2 == pbft'[n]
          IN (/\ s.m_committed_prepare_cache # EmptyReq
              /\ s2.m_raw_prepare_cache # s.m_raw_prepare_cache
              /\ s2.m_raw_prepare_cache.height = s.m_committed_prepare_cache.height)
                 => s2.m_raw_prepare_cache.block_hash
                        = s.m_committed_prepare_cache.block_hash]_vars

\* C22: after any handler, a non-empty prepare of the current view whose
\* hash has at least quorum sign votes means that the node is in the commit
\* phase for it: committedPrepare holds the proposal and, if the node is a
\* miner, its own commit vote is out.
C22_QuorumMeansCommitPhase ==
    \A n \in DOMAIN pbft :
        LET s == pbft[n]
            p == s.m_prepare_cache
        IN (/\ p # EmptyReq
            /\ p.view = s.m_view
            /\ Size(Get(s.m_sign_cache, p.block_hash)) >= quorum(s))
               => /\ s.m_committed_prepare_cache.height = p.height
                  /\ s.m_committed_prepare_cache.view = p.view
                  /\ Reseal(s.m_committed_prepare_cache.block_hash) = p.block_hash
                  /\ s.m_account_type = "miner" =>
                         \E k \in DOMAIN Get(s.m_commit_cache, p.block_hash) :
                             s.m_commit_cache[p.block_hash][k].idx = s.m_node_idx

\* the own commit vote for the proposal p of engine state s
OwnCommit(s, p) == OwnReq(s, p.height, p.view, p.block_hash)

C24_CommitsTheDerivedProposal ==
    [][\A n \in DOMAIN pbft :
          pbft'[n].m_backup_db # pbft[n].m_backup_db
              => /\ pbft'[n].m_prepare_cache # EmptyReq
                 /\ pbft'[n].m_raw_prepare_cache.height = pbft'[n].m_prepare_cache.height
                 /\ pbft'[n].m_raw_prepare_cache.view = pbft'[n].m_prepare_cache.view
                 /\ pbft'[n].m_raw_prepare_cache.idx = pbft'[n].m_prepare_cache.idx]_vars

\* the same for a prepare of the height under consensus
C24_CurrentHeightProposal ==
    [][\A n \in DOMAIN pbft :
          (/\ pbft'[n].m_backup_db # pbft[n].m_backup_db
           /\ pbft'[n].m_prepare_cache.height = pbft'[n].m_consensus_block_number)
              => /\ pbft'[n].m_prepare_cache # EmptyReq
                 /\ pbft'[n].m_raw_prepare_cache.height = pbft'[n].m_prepare_cache.height
                 /\ pbft'[n].m_raw_prepare_cache.view = pbft'[n].m_prepare_cache.view
                 /\ pbft'[n].m_raw_prepare_cache.idx = pbft'[n].m_prepare_cache.idx]_vars

\* the proposals handed to handlePrepareMsg in engine state s: of the heights
\* and views next to the ones under consensus, of every proposer, with valid
\* and invalid signatures
PrepareReqs(s) ==
    {[PeerReq(h, v, i, <<h, b, 0>>, 0, <<h, b, 0>>)
         EXCEPT !.sig2 = IF ok THEN i ELSE (i + 1) % NodeNum] :
        h \in {x \in 0..(s.m_consensus_block_number + 1) :
                   x + 1 >= s.m_consensus_block_number},
        v \in {x \in 0..(s.m_view + 1) : x + 1 >= s.m_view},
        i \in 0..(NodeNum - 1), b \in {"a", "b"}, ok \in BOOLEAN}

\* the proposal req, not self-originated, is one the admission rejects
RejectedPrepare(s, req) ==
    \/ req.block_hash = s.m_raw_prepare_cache.block_hash
    \/ req.idx = s.m_node_idx
    \/ req.height < s.m_consensus_block_number
    \/ req.view < s.m_view
    \/ /\ req.height = s.m_consensus_block_number
       /\ req.view = s.m_view
       /\ \/ ~getLeader(s)[1]
          \/ req.idx # getLeader(s)[2]
          \/ /\ req.height = s.m_committed_prepare_cache.height
             /\ req.block_hash # s.m_committed_prepare_cache.block_hash
          \/ ~checkSign(req)

\* the engine states s and r have the same proposals, votes and views
SameConsensusState(s, r) ==
    /\ r.m_raw_prepare_cache = s.m_raw_prepare_cache
    /\ r.m_prepare_cache = s.m_prepare_cache
    /\ r.m_future_prepare_cache = s.m_future_prepare_cache
    /\ r.m_sign_cache = s.m_sign_cache
    /\ r.m_commit_cache = s.m_commit_cache
    /\ r.m_committed_prepare_cache = s.m_committed_prepare_cache
    /\ r.m_view = s.m_view
    /\ r.m_to_view = s.m_to_view

\* C25: a Prepare rejected at admission (stale, a duplicate of rawPrepare,
\* carrying the own index without being self-originated, not of the computed
\* primary, contradicting committedPrepare at its height, or with an invalid
\* signature) leaves rawPrepare, prepare, futurePrepare, signCache,
\* commitCache, committedPrepare, view and toView unchanged.
C25_RejectedPrepareChangesNothing ==
    \A n \in DOMAIN pbft :
        \A req \in PrepareReqs(pbft[n]) :
            RejectedPrepare(pbft[n], req)
                => SameConsensusState(pbft[n],
                       handlePrepareMsg(pbft[n], req.idx, req, FALSE))

\* a validly signed proposal of the primary for the current height and view
\* is on its way to an engine that has committed another proposal of that
\* height
C25_Witness ==
    \E n \in DOMAIN pbft :
        \E pkt \in wire :
            /\ pkt.id = "PrepareReq" /\ pkt.to = n
            /\ pkt.msg \in PrepareReqs(pbft[n])
            /\ pkt.msg.height = pbft[n].m_consensus_block_number
            /\ pkt.msg.view = pbft[n].m_view
            /\ getLeader(pbft[n]) = <<TRUE, pkt.msg.idx>>
            /\ checkSign(pkt.msg)
            /\ pkt.msg.block_hash # pbft[n].m_raw_prepare_cache.block_hash
            /\ pkt.msg.height = pbft[n].m_committed_prepare_cache.height
            /\ pkt.msg.block_hash # pbft[n].m_committed_prepare_cache.block_hash

\* the votes handed to handleSignMsg and handleCommitMsg in engine state s:
\* of the heights and views next to the ones under consensus, of every
\* signer, for the sealed blocks a and b, with valid and invalid signatures
VoteReqs(s) ==
    {[PeerReq(h, v, i, <<h, b, 1>>, 0, NoHash)
         EXCEPT !.sig2 = IF ok THEN i ELSE (i + 1) % NodeNum] :
        h \in {x \in 0..(s.m_consensus_block_number + 1) :
                   x + 1 >= s.m_consensus_block_number},
        v \in {x \in 0..(s.m_view + 1) : x + 1 >= s.m_view},
        i \in 0..(NodeNum - 1), b \in {"a", "b"}, ok \in BOOLEAN}

\* the engine states s and r have the same vote caches
SameVotes(s, r) ==
    /\ r.m_sign_cache = s.m_sign_cache
    /\ r.m_commit_cache = s.m_commit_cache

\* C26 as stated: a Sign or Commit for another block than prepare's is
\* cached only if it is of a later height or a later view and validly
\* signed; a duplicate vote, an own vote and a vote of another view than
\* prepare's leave the caches unchanged.
C26_MismatchCachedOnlyIfLater ==
    \A n \in DOMAIN pbft :
        \A req \in VoteReqs(pbft[n]) :
            LET s == pbft[n]
                later == \/ req.height > s.m_consensus_block_number
                         \/ req.view > s.m_view
            IN /\ (\/ /\ req.block_hash # s.m_prepare_cache.block_hash
                      /\ ~(later /\ checkSign(req))
                   \/ req.idx = s.m_node_idx
                   \/ req.view # s.m_prepare_cache.view)
                      => /\ SameVotes(s, handleSignMsg(s, req.idx, req))
                         /\ SameVotes(s, handleCommitMsg(s, req.idx, req))
               /\ req.sig \in DOMAIN Get(s.m_sign_cache, req.block_hash)
                      => SameVotes(s, handleSignMsg(s, req.idx, req))
               /\ req.sig \in DOMAIN Get(s.m_commit_cache, req.block_hash)
                      => SameVotes(s, handleCommitMsg(s, req.idx, req))

\* C26, amended: a Sign or Commit for another block than prepare's is cached
\* only if it is of the height under consensus or a later one, or of a later
\* view, and validly signed; a duplicate vote, an own vote, and a vote for
\* prepare's block of another view than prepare's leave the caches
\* unchanged.
C26_MismatchCachedOnlyIfNotPast ==
    \A n \in DOMAIN pbft :
        \A req \in VoteReqs(pbft[n]) :
            LET s == pbft[n]
                not_past == \/ req.height >= s.m_consensus_block_number
                            \/ req.view > s.m_view
            IN /\ (\/ /\ req.block_hash # s.m_prepare_cache.block_hash
                      /\ ~(not_past /\ checkSign(req))
                   \/ req.idx = s.m_node_idx
                   \/ /\ req.block_hash = s.m_prepare_cache.block_hash
                      /\ req.view # s.m_prepare_cache.view)
                      => /\ SameVotes(s, handleSignMsg(s, req.idx, req))
                         /\ SameVotes(s, handleCommitMsg(s, req.idx, req))
               /\ req.sig \in DOMAIN Get(s.m_sign_cache, req.block_hash)
                      => SameVotes(s, handleSignMsg(s, req.idx, req))
               /\ req.sig \in DOMAIN Get(s.m_commit_cache, req.block_hash)
                      => SameVotes(s, handleCommitMsg(s, req.idx, req))

\* a validly signed vote of a peer for a block of a height below the one
\* under consensus is on its way to an engine whose prepare is another block
C26_Witness ==
    \E n \in DOMAIN pbft :
        \E pkt \in wire :
            /\ pkt.id \in {"SignReq", "CommitReq"} /\ pkt.to = n
            /\ pkt.msg \in VoteReqs(pbft[n])
            /\ checkSign(pkt.msg)
            /\ pkt.msg.idx # pbft[n].m_node_idx
            /\ pkt.msg.block_hash # pbft[n].m_prepare_cache.block_hash
            /\ pkt.msg.height < pbft[n].m_consensus_block_number
            /\ pkt.msg.view <= pbft[n].m_view
            /\ pkt.msg.sig \notin DOMAIN Get(pbft[n].m_sign_cache, pkt.msg.block_hash)
            /\ pkt.msg.sig \notin DOMAIN Get(pbft[n].m_commit_cache, pkt.msg.block_hash)

\* the signers other than engine state s whose validly signed view change
\* for view v is in the cache of s
CachedViewChangers(s, v) ==
    {i \in DOMAIN Get(s.m_recv_view_change_req, v) :
        /\ i # s.m_node_idx
        /\ s.m_recv_view_change_req[v][i].idx = i
        /\ s.m_recv_view_change_req[v][i].view = v
        /\ checkSign(s.m_recv_view_change_req[v][i])}

\* the signers other than engine n whose validly signed view change for view
\* v is on its way to n
ArrivingViewChangers(n, v) ==
    {pkt.msg.idx : pkt \in {p \in wire : /\ p.id = "ViewChangeReq"
                                         /\ p.to = n
                                         /\ p.msg.view = v
                                         /\ p.msg.idx # pbft[n].m_node_idx
                                         /\ checkSign(p.msg)}}

\* C27: a step sets view to a new value v other than 0 only if v is toView
\* and the view changes for v cached before the step, with the one the step
\* handles, are validly signed ones of at least quorum - 1 distinct signers
\* other than the node.
C27_ViewChangeNeedsQuorum ==
    [][\A n \in DOMAIN pbft :
          LET v == pbft'[n].m_view
          IN (v # pbft[n].m_view /\ v # 0)
                 => /\ v = pbft'[n].m_to_view
                    /\ \E X \in {{}} \cup {{i} : i \in ArrivingViewChangers(n, v)} :
                           Cardinality(CachedViewChangers(pbft[n], v) \cup X) + 1
                               >= quorum(pbft[n])]_vars

\* an engine has changed to a view above 0
C27_Witness ==
    \E n \in DOMAIN pbft :
        /\ pbft[n].m_view > 0
        /\ pbft[n].m_view = pbft[n].m_to_view
        /\ ~pbft[n].m_leader_failed

Least(S) == CHOOSE x \in S : \A y \in S : x <= y

Greatest(S) == CHOOSE x \in S : \A y \in S : x >= y

\* the views above to_view at which signer i has a view change of the tip's
\* height or a later one in the cache of engine state s
FastViews(s, to_view, i) ==
    {v \in DOMAIN s.m_recv_view_change_req :
        /\ v > to_view
        /\ i \in DOMAIN s.m_recv_view_change_req[v]
        /\ s.m_recv_view_change_req[v][i].height >= s.m_highest_block.number}

\* the signers that have such a view change
FastSigners(s, to_view) ==
    {i \in 0..(NodeNum - 1) : FastViews(s, to_view, i) # {}}

\* the step from engine state s to r cached a view change for a view above
\* toView and completed no view change
CachedAboveToView(s, r) ==
    /\ r.m_view = s.m_view
    /\ r.m_highest_block = s.m_highest_block
    /\ \E v \in DOMAIN r.m_recv_view_change_req :
           /\ v > s.m_to_view
           /\ DOMAIN r.m_recv_view_change_req[v]
                  # DOMAIN Get(s.m_recv_view_change_req, v)

\* C29: when a step caches a ViewChange of a view above toView and more than
\* f signers have a cached view change of a view above toView and of the
\* tip's height or a later one, then, unless the least height of these view
\* changes is consensusHeight and committedPrepare's height, toView becomes
\* minView - 1, minView being the least of the signers' greatest such views,
\* and is not below its previous value, changeCycle is min(toView,
\* kMaxChangeCycle), both timeout anchors are zero, and a timeout then
\* raises toView to minView; otherwise toView is unchanged.
C29_FastViewChange ==
    [][\A n \in DOMAIN pbft :
          LET s == pbft[n]
              r == pbft'[n]
              signers == FastSigners(r, s.m_to_view)
              minView == Least({Greatest(FastViews(r, s.m_to_view, i)) : i \in signers})
              minHeight ==
                  Least(UNION {{r.m_recv_view_change_req[v][i].height :
                                   v \in FastViews(r, s.m_to_view, i)} : i \in signers})
              guard == /\ minHeight = s.m_consensus_block_number
                       /\ minHeight = s.m_committed_prepare_cache.height
          IN CachedAboveToView(s, r)
                 => IF Cardinality(signers) > s.m_f /\ ~guard
                    THEN /\ r.m_to_view = minView - 1
                         /\ r.m_to_view >= s.m_to_view
                         /\ r.m_change_cycle = Min(r.m_to_view, kMaxChangeCycle)
                         /\ r.m_last_consensus_time = 0
                         /\ r.m_last_sign_time = 0
                         /\ checkTimeout(r).m_to_view = minView
                    ELSE r.m_to_view = s.m_to_view]_vars

\* the view changes handed to handleViewChangeMsg in engine state s: of the
\* heights and views next to the current ones, of every signer, for the
\* tip's block and another one, with valid and invalid signatures
ViewChangeReqs(s) ==
    {[PeerReq(h, v, i, hash, 0, NoHash)
         EXCEPT !.sig2 = IF ok THEN i ELSE (i + 1) % NodeNum] :
        h \in {x \in 0..(s.m_highest_block.number + 1) :
                   x + 1 >= s.m_highest_block.number} \ {Invalid256 + 1},
        v \in {x \in 0..(s.m_view + 2) : x + 1 >= s.m_view},
        i \in 0..(NodeNum - 1),
        hash \in {s.m_highest_block.hash, <<1, "b", 1>>},
        ok \in BOOLEAN}

\* the view change req is one the admission rejects; known: the chain holds
\* the block req names
RejectedViewChange(s, req, known) ==
    \/ req.idx \in DOMAIN Get(s.m_recv_view_change_req, req.view)
    \/ req.idx = s.m_node_idx
    \/ req.height < s.m_highest_block.number
    \/ req.view <= s.m_view
    \/ /\ req.height = s.m_highest_block.number
       /\ req.block_hash # s.m_highest_block.hash
       /\ ~known
    \/ ~checkSign(req)

TimedOut(s, miners_only) ==
    LET to_view == s.m_to_view + 1
        reqs == Get(s.m_recv_view_change_req, to_view)
        kept == [i \in {j \in DOMAIN reqs :
                           ~(\/ reqs[j].height < s.m_highest_block.number
                             \/ /\ reqs[j].height = s.m_highest_block.number
                                /\ reqs[j].block_hash # s.m_highest_block.hash)}
                    |-> reqs[i]]
        sent == IF miners_only /\ s.m_account_type # "miner"
                THEN {}
                ELSE {[id |-> "ViewChangeReq",
                       msg |-> OwnReq(s, s.m_highest_block.number, to_view,
                                      s.m_highest_block.hash),
                       to |-> "miners", peer |-> Invalid256, filter |-> {}]}
    IN [s EXCEPT !.m_leader_failed = TRUE,
                 !.m_to_view = to_view,
                 !.m_change_cycle = Min(s.m_change_cycle + 1, kMaxChangeCycle),
                 !.m_last_consensus_time = 1,
                 !.m_recv_view_change_req = MapPut(@, to_view, kept),
                 !.out = @ \cup sent]

StaleAt(b, req) ==
    \/ req.height < b.number
    \/ req.height = b.number /\ req.block_hash # b.hash

\* C32: reportBlock(b) with b.number >= consensusHeight sets view, toView and
\* changeCycle to 0, leaderFailed to false and consensusHeight to
\* b.number + 1, and purges the view changes that are stale at b, keeping
\* the others; with a lower b.number it leaves these five as they were; in
\* both cases signCache, commitCache and the commit-triggered set hold no
\* entry for b's hash afterwards, and prepare is cleared if it carried that
\* hash.
C32_ReportBlock ==
    \A n \in DOMAIN pbft :
        \A b \in Headers :
            LET s == pbft[n]
                r == reportBlock(s, b)
                c == s.m_recv_view_change_req
                d == r.m_recv_view_change_req
            IN /\ IF b.number >= s.m_consensus_block_number
                  THEN /\ r.m_view = 0
                       /\ r.m_to_view = 0
                       /\ r.m_change_cycle = 0
                       /\ ~r.m_leader_failed
                       /\ r.m_consensus_block_number = b.number + 1
                       /\ \A v \in DOMAIN d : \A i \in DOMAIN d[v] :
                              /\ ~StaleAt(b, d[v][i])
                              /\ v \in DOMAIN c /\ i \in DOMAIN c[v]
                              /\ c[v][i] = d[v][i]
                       /\ \A v \in DOMAIN c : \A i \in DOMAIN c[v] :
                              ~StaleAt(b, c[v][i])
                                  => v \in DOMAIN d /\ i \in DOMAIN d[v]
                  ELSE /\ r.m_view = s.m_view
                       /\ r.m_to_view = s.m_to_view
                       /\ r.m_change_cycle = s.m_change_cycle
                       /\ r.m_leader_failed = s.m_leader_failed
                       /\ r.m_consensus_block_number = s.m_consensus_block_number
               /\ b.hash \notin DOMAIN r.m_sign_cache
               /\ b.hash \notin DOMAIN r.m_commit_cache
               /\ b.hash \notin r.m_commitMap
               /\ s.m_prepare_cache.block_hash = b.hash => r.m_prepare_cache = EmptyReq

\* an engine in a view above 0 whose prepare, with sign votes cached, is the
\* block the chain can report next, and whose view-change cache is not empty
C32_Witness ==
    \E n \in DOMAIN pbft :
        \E b \in Headers :
            /\ pbft[n].m_to_view > 0
            /\ pbft[n].m_leader_failed
            /\ pbft[n].m_prepare_cache.block_hash = b.hash
            /\ b.hash \in DOMAIN pbft[n].m_sign_cache
            /\ b.number >= pbft[n].m_consensus_block_number
            /\ pbft[n].m_recv_view_change_req # EmptyMap

\* the proposals of a block without transactions for the slot of s
EmptyProposals(s) ==
    {[PeerReq(s.m_consensus_block_number, s.m_view, i,
              <<s.m_consensus_block_number, "empty", 0>>, 0,
              <<s.m_consensus_block_number, "empty", 0>>)
         EXCEPT !.sig2 = IF ok THEN i ELSE (i + 1) % NodeNum] :
        i \in 0..(NodeNum - 1), ok \in BOOLEAN}

\* handlePrepareMsg admits the proposal req and executes its block, which
\* turns out to hold no transaction, with omitEmptyBlock set
ExecutedEmpty(s, req) ==
    /\ ~RejectedPrepare(s, req)
    /\ req.height = s.m_consensus_block_number
    /\ req.view = s.m_view
    /\ ~ExecThrows(s, req.block)
    /\ req.block = req.block_hash
    /\ ExecEmpty(req.block)
    /\ s.m_omit_empty_block

\* what C33 says of the handler apart from leaderFailed
EmptyBlockStops(s, req, r) ==
    /\ r.m_last_consensus_time = 0
    /\ r.m_last_sign_time = 0
    /\ r.m_change_cycle = 0
    /\ r.m_prepare_cache.block_hash \notin {req.block_hash, Reseal(req.block)}
    /\ r.out = s.out

\* C33 as stated: when handlePrepareMsg executes a current-slot proposal
\* without transactions and omitEmptyBlock is set, it zeroes both timeout
\* anchors, sets changeCycle to 0 and leaderFailed to true, and stops without
\* storing prepare or broadcasting a Sign.
C33_EmptyBlockFailsLeader ==
    \A n \in DOMAIN pbft :
        \A req \in EmptyProposals(pbft[n]) :
            ExecutedEmpty(pbft[n], req)
                => LET r == handlePrepareMsg(pbft[n], req.idx, req, FALSE)
                   IN /\ EmptyBlockStops(pbft[n], req, r)
                      /\ r.m_leader_failed

\* C33 as the code has it: when handlePrepareMsg executes a current-slot
\* proposal without transactions and omitEmptyBlock is set, it zeroes both
\* timeout anchors, sets changeCycle to 0, leaves leaderFailed as it was, and
\* stops without storing prepare or broadcasting a Sign.
C33_EmptyBlockKeepsLeaderFailed ==
    \A n \in DOMAIN pbft :
        \A req \in EmptyProposals(pbft[n]) :
            ExecutedEmpty(pbft[n], req)
                => LET r == handlePrepareMsg(pbft[n], req.idx, req, FALSE)
                   IN /\ EmptyBlockStops(pbft[n], req, r)
                      /\ r.m_leader_failed = pbft[n].m_leader_failed

\* an engine that has executed the empty block of its leader and dropped it
C33_Witness ==
    \E n \in DOMAIN pbft :
        /\ pbft[n].m_omit_empty_block
        /\ pbft[n].m_raw_prepare_cache # EmptyReq
        /\ ExecEmpty(pbft[n].m_raw_prepare_cache.block)
        /\ pbft[n].m_raw_prepare_cache.view = pbft[n].m_view
        /\ pbft[n].m_prepare_cache = EmptyReq
        /\ pbft[n].m_last_consensus_time = 0
        /\ pbft[n].m_last_sign_time = 0
        /\ ~pbft[n].m_leader_failed

\* the number of times peer k was written to
Writes(written, k) == Cardinality({i \in DOMAIN written : written[i] = k})

\* C38: broadcast(key, kind, bytes, filter) never writes the message to a
\* peer that is not a miner, to a peer in filter, or to a peer whose
\* peer-seen filter for the kind already holds key; every other connected
\* miner peer receives it exactly once; afterwards every connected miner
\* peer, in filter or not, has key marked, so that a repeated broadcast of
\* the key, with whatever filter, sends nothing.
C38_Broadcast ==
    call.fn = "broadcastMsg" =>
        \A key \in CastKeys :
            \A id \in PacketKinds :
                \A filter \in SUBSET CastPeers :
                    LET r == broadcastPeers(call.peers, key, id, filter)
                    IN /\ \A k \in CastPeers :
                              LET p == call.peers[k]
                              IN /\ (\/ p.account # "miner"
                                     \/ k \in filter
                                     \/ broadcastFilter(p.known, key, id))
                                        => Writes(r.written, k) = 0
                                 /\ (/\ p.session
                                     /\ p.account = "miner"
                                     /\ k \notin filter
                                     /\ ~broadcastFilter(p.known, key, id))
                                        => Writes(r.written, k) = 1
                                 /\ (p.session /\ p.account = "miner")
                                        => broadcastFilter(r.peers[k].known, key, id)
                       /\ \A again \in SUBSET CastPeers :
                              broadcastPeers(r.peers, key, id, again).written = << >>

\* the host has an observer and a miner without session among its peers, and
\* the proposals sent have filled the known-key queue of a connected miner
C38_Witness ==
    /\ call.fn = "broadcastMsg"
    /\ call.peers[0].account = "normal"
    /\ ~call.peers[2].session
    /\ Len(call.peers[1].known.m_knownPrepare) > kKnownPrepare
    /\ call.peers[1].known.m_knownViewChange # << >>

\* the packets that can be delivered to engine n
Inbound(n) == {pkt \in wire : pkt.to = n}

\* the peers engine n writes the message of pkt to when handleMsg, having
\* handled pkt, passes it on
Relayed(n, pkt) ==
    LET r == handleMsg(pbft[n], pkt, FALSE, << >>)
        recs == {p \in r.out : p.to = "miners" /\ p.id = pkt.id /\ p.msg = pkt.msg}
    IN IF recs = {} THEN << >>
       ELSE broadcastPeers(call.peers, uniqueKey(pkt.msg), pkt.id,
                           (CHOOSE p \in recs : TRUE).filter).written

\* C34: an inbound message is passed on to other miner peers only when its
\* handler accepted it, that is, did anything at all with it, and the index
\* it claims is that of the peer that delivered it; a message the handler
\* dropped (bad signature, stale, duplicate, wrong leader) is not passed on.
C34_RelayOnlyAccepted ==
    call.fn = "handleMsg" =>
        \A n \in DOMAIN pbft :
            \A pkt \in Inbound(n) :
                Relayed(n, pkt) # << >>
                    => /\ dispatch(pbft[n], pkt, FALSE, << >>) # pbft[n]
                       /\ pkt.msg.idx = pkt.from

\* a peer is known to hold the proposal that carries a signature which is
\* not the proposer's: the engine has passed it on
C34_Witness ==
    /\ call.fn = "handleMsg"
    /\ \E k \in DOMAIN call.peers :
       \E pkt \in wire :
           /\ pkt.id = "PrepareReq"
           /\ ~checkSign(pkt.msg)
           /\ broadcastFilter(call.peers[k].known, uniqueKey(pkt.msg), pkt.id)

SignerIndices(sign_list) == {sign_list[i][1] : i \in DOMAIN sign_list}

\* C36: checkBlockSign accepts a sealed block only if its signature list
\* holds valid signatures of at least N - f distinct roster indices; a list
\* that reaches the length by repeating the entry of one signer is rejected.
C36_DistinctSigners ==
    call.fn = "checkBlockSign" /\ call.done /\ call.ret =>
        LET N == Len(getMinerList(call.all_node).miner_list)
            f == (N - 1) \div 3
        IN Cardinality(SignerIndices(call.sign_list)) >= N - f

\* a block of a roster of four was accepted with the signature of one miner,
\* three times in the list
C36_Witness ==
    /\ call.fn = "checkBlockSign"
    /\ call.done
    /\ call.ret
    /\ Len(call.header.nodeList) = 4
    /\ Len(call.sign_list) = 3
    /\ Cardinality(SignerIndices(call.sign_list)) = 1

\* the packets of out written to one peer
Unicast(out) == {p \in out : p.to = "peer"}

\* C37: a ViewChange with an invalid signature, whatever its view and the
\* index it claims, is answered with no catch-up ViewChange: handleMsg
\* writes nothing to the peer that delivered it.
C37_NoReplyToBadSignature ==
    \A n \in DOMAIN pbft :
        \A req \in ViewChangeReqs(pbft[n]) :
            \A from \in AllPeers \ {n} :
                LET s == pbft[n]
                    views == DOMAIN s.m_recv_view_change_req \cup {req.view}
                    r == handleMsg(s, Packet("ViewChangeReq", from, n, req), FALSE,
                                   CHOOSE ord \in Orders(views) : TRUE)
                IN ~checkSign(req) => Unicast(r.out) = {}

\* a miner whose toView is two or more above its view: a view change for
\* its view that a peer sends in its own name is behind by more than one
C37_Witness ==
    \E n \in DOMAIN pbft :
        /\ pbft[n].m_account_type = "miner"
        /\ pbft[n].m_view + 1 < pbft[n].m_to_view
        /\ \E req \in ViewChangeReqs(pbft[n]) :
               /\ ~checkSign(req)
               /\ req.view = pbft[n].m_view
               /\ req.idx # n
               /\ ~isExistViewChange(pbft[n], req)

\* the proposal engine n has parked, EmptyReq if none
Parked(n) == pbft[n].m_future_prepare_cache[2]

\* C39: the futurePrepare slot holds no proposal that consensusHeight or
\* view has moved past: a parked proposal is of the consensus height or a
\* later one, and of the current view or a later one if it is of the
\* consensus height.
C39_ParkedNotBehind ==
    \A n \in DOMAIN pbft :
        Parked(n) # EmptyReq
            => /\ Parked(n).height >= pbft[n].m_consensus_block_number
               /\ Parked(n).height = pbft[n].m_consensus_block_number
                      => Parked(n).view >= pbft[n].m_view

\* the chain has grown past the height of the proposal an engine has parked
C39_Witness ==
    \E n \in DOMAIN pbft :
        /\ Parked(n) # EmptyReq
        /\ Parked(n).height < pbft[n].m_consensus_block_number
        /\ pbft[n].m_highest_block.number >= Parked(n).height

\* C40: every iteration of the worker loop calls checkTimeout,
\* handleFutureBlock and collectGarbage after the message it dispatched, if
\* any, also when the handler throws, and the loop goes on after the
\* exception; so, whatever packets that do not decode the peers send, once
\* the consensus interval has elapsed the timeout fires.
C40_TimeoutEventuallyFires ==
    (call.fn = "workLoop" /\ call.expired) ~> (call.fn = "workLoop" /\ ~call.expired)

\* the consensus interval has elapsed and the queue holds a packet that does
\* not decode
C40_Witness ==
    /\ call.fn = "workLoop"
    /\ call.expired
    /\ \E n \in DOMAIN pbft :
       \E pkt \in msg_queue(n) : BadRLP(pkt.msg)

====
